---- MODULE Spec2Model ----
(***************************************************************************)
(* Hunt Property API (FastAPI over MongoDB): the OTP service with the      *)
(* auth handlers, and the users / favorites handlers.                      *)
(*                                                                         *)
(* A request handler is a Python coroutine.  The event loop runs it        *)
(* without interruption between two awaits that really suspend (a          *)
(* database call, the SMS gateway call); awaiting get_database() or one of *)
(* the in-memory OTPService methods does not suspend.  Each action below   *)
(* is one such uninterrupted piece: one database (or gateway) operation    *)
(* taking effect, together with the local code that handles its result up  *)
(* to the next operation being issued.  An operation on the in-memory map  *)
(* that follows a database call is a step of its own, because other        *)
(* handlers can run between the database call taking effect and its        *)
(* result being handled.                                                   *)
(***************************************************************************)
EXTENDS Integers, Sequences, FiniteSets, TLC

VARIABLES
    now,          \* datetime.utcnow(), in minutes
    otp_storage,  \* otp_service.otp_storage: phone -> record (in-process map)
    otps,         \* db.otps: phone_number -> document
    users,        \* db.users: set of documents
    user_seq,     \* number of _id values db.users.insert_one has generated
    sms_out,      \* the phone the last step handed an OTP message to the SMS gateway for
    procs,        \* the request handlers in flight: position and locals
    resp,         \* the HTTP response sent by the last step, if any
    hist,         \* history per phone: what was issued and verified
    properties,   \* db.properties: set of documents
    prop_seq,     \* number of _id values db.properties.insert_one has generated
    favorites,    \* db.favorites: set of documents
    fav_seq,      \* number of _id values db.favorites.insert_one has generated
    db,           \* db.reviews, db.inquiries, db.transactions, db.notifications,
                  \* db.orders: a set of documents each
    seq,          \* number of _id values generated per collection of db, and of
                  \* uuid4 names upload_image has drawn
    uploads,      \* the files in UPLOADS_DIR
    walk          \* history of a client reading GET /api/properties page by page

vars == <<now, otp_storage, otps, users, user_seq, sms_out, procs, resp, hist,
          properties, prop_seq, favorites, fav_seq, db, seq, uploads, walk>>

\* the state outside the auth, users, properties and favorites routers
others == <<db, seq, uploads, walk>>

\* the collections the auth handlers never touch
listings == <<properties, prop_seq, favorites, fav_seq>>

----------------------------------------------------------------------------
(* Bounds of the model *)

NPhones == 2
NOtpPhones == 1
NCodes == 2
NEmails == 1
NProcs == 2
MaxTicks == 2
MaxUserIds == 2
MaxPropIds == 2
MaxFavIds == 3
NTxTypes == 2
NPrices == 2
MaxLimit == 2
MaxDocIds == 2
MaxDocs == 2
NVals == 2
MaxCreated == 3
MaxUploads == 2

(* Program constants *)

MaxAttempts == 5
OtpValidMinutes == 5

\* the clock is observed every TickMinutes: two ticks outlive an OTP
TickMinutes == OtpValidMinutes \div 2 + 1

Phones == 1..NPhones

\* the phones clients run the OTP flows for
OtpPhones == 1..NOtpPhones
BadPhone == 0
Codes == 1..NCodes
Emails == 1..NEmails
NoEmail == 0
NoSms == 0
Procs == 1..NProcs

\* identifiers: a string ObjectId.is_valid rejects, and the _id values
BadId == 0
UserIds == 1..MaxUserIds
PropIds == 1..MaxPropIds

\* an ObjectId string: lower-case hexadecimal is the number of the ObjectId,
\* the same digits in upper case its negative; bson accepts both, and str()
\* of an ObjectId is lower case
UpperCase(id) == 0 - id

ObjectIdOf(s) == IF s < 0 THEN 0 - s ELSE s

IsValidId(s) == s # BadId

StrOf(oid) == oid

\* property fields: transaction_type (sale, rent) and price
TxTypes == 1..NTxTypes
Prices == 1..NPrices

\* a field the request body of an update leaves out
Absent == 0 - 1

\* f"{phone_number}@temp.huntproperty.com"
TempEmail(ph) == NEmails + ph

\* email.endswith("@temp.huntproperty.com")
IsTempEmail(e) == e > NEmails

AllEmails == Emails \cup {TempEmail(ph) : ph \in Phones}

----------------------------------------------------------------------------
(* Partial maps, as Python dicts and as a collection keyed by one field *)

Put(m, k, v) == [x \in DOMAIN m \cup {k} |-> IF x = k THEN v ELSE m[x]]

Del(m, k) == [x \in DOMAIN m \ {k} |-> m[x]]

Empty == [x \in {} |-> 0]

----------------------------------------------------------------------------
(* OTP records *)

NewOtpRecord(c, t) ==
    [otp |-> c, expires_at |-> t + OtpValidMinutes, verified |-> FALSE, attempts |-> 0]

Expired(rec) == now > rec.expires_at

AttemptsExhausted(rec) == rec.attempts >= MaxAttempts

\* a check that only looks for the document
IsOtpPresentInDb(ph) == ph \in DOMAIN otps

IsOtpVerifiedFromDb(ph) == ph \in DOMAIN otps /\ otps[ph].verified

IsOtpVerified(ph) == ph \in DOMAIN otp_storage /\ otp_storage[ph].verified

----------------------------------------------------------------------------
(* Handlers in flight *)

\* uid, pid: the user and property identifiers of the request; doc: the _id
\* insert_one returned; had: whether the (user, property) pair had a favorite
\* when the request arrived (history, read by no handler)
\* body: the request body; ret: the document in the response body
NoBody == [owner_id |-> 0, transaction_type |-> 0, price |-> 0]

NoDoc == [id |-> 0, owner_id |-> 0, posted_at |-> 0, transaction_type |-> 0, price |-> 0]

IdleProc == [pc |-> "idle", op |-> "none", phone |-> 0, otp |-> 0, snap |-> 0,
             email |-> 0, sms_ok |-> TRUE, uid |-> 0, pid |-> 0, doc |-> 0,
             had |-> FALSE, body |-> NoBody, compared |-> FALSE]

NoResp == [op |-> "none", phone |-> 0, otp |-> 0, status |-> 0, sms_ok |-> TRUE,
           email |-> 0, uid |-> 0, pid |-> 0, fid |-> 0, had |-> FALSE,
           body |-> NoBody, ret |-> NoDoc]

Reply(op, ph, c, st, ok) ==
    [NoResp EXCEPT !.op = op, !.phone = ph, !.otp = c, !.status = st, !.sms_ok = ok]

ReplyOf(p, st) ==
    [op |-> procs[p].op, phone |-> procs[p].phone, otp |-> procs[p].otp, status |-> st,
     sms_ok |-> procs[p].sms_ok, email |-> procs[p].email, uid |-> procs[p].uid,
     pid |-> procs[p].pid, fid |-> procs[p].doc,
     had |-> procs[p].had, body |-> procs[p].body, ret |-> NoDoc]

Begin(p, op, ph, c, pc) ==
    procs' = [procs EXCEPT ![p] = [IdleProc EXCEPT !.pc = pc, !.op = op, !.phone = ph, !.otp = c]]

Goto(p, pc) == procs' = [procs EXCEPT ![p].pc = pc]

Finish(p, st) ==
    /\ procs' = [procs EXCEPT ![p] = IdleProc]
    /\ resp' = ReplyOf(p, st)

----------------------------------------------------------------------------
(* History, for stating the claims: what was last issued for a phone, how  *)
(* many verification requests were made for it (counted up to one past the *)
(* limit), whether the last of them was made after the expiry time,        *)
(* whether one of them succeeded with the issued code, and how many        *)
(* requests had their code compared with the issued code (counted up to    *)
(* one past the limit).  No handler reads it.                              *)

NoHist == [issued |-> FALSE, code |-> 0, exp |-> 0, tries |-> 0, late |-> FALSE, ok |-> FALSE,
           compared |-> 0]

HistIssue(ph, c, t) ==
    [hist EXCEPT ![ph] = [issued |-> TRUE, code |-> c, exp |-> t + OtpValidMinutes,
                          tries |-> 0, late |-> FALSE, ok |-> FALSE, compared |-> 0]]

HistTry(ph) ==
    IF ph \in Phones
    THEN [hist EXCEPT ![ph].tries = IF @ > MaxAttempts THEN @ ELSE @ + 1,
                      ![ph].late = hist[ph].issued /\ now > hist[ph].exp]
    ELSE hist

HistVerifiedIn(h, ph, c) ==
    IF ph \in Phones /\ h[ph].issued /\ h[ph].code = c
    THEN [h EXCEPT ![ph].ok = TRUE]
    ELSE h

HistVerified(ph, c) == HistVerifiedIn(hist, ph, c)

\* the code of the request handler p runs is compared with the stored code
\* stored: one more request compared with the issued code, unless this
\* request was counted before or the stored code is not the issued one
HistCompare(p, stored) ==
    LET ph == procs[p].phone
    IN IF ph \in Phones /\ ~procs[p].compared /\ hist[ph].issued /\ hist[ph].code = stored
       THEN [hist EXCEPT ![ph].compared = IF @ > MaxAttempts THEN @ ELSE @ + 1]
       ELSE hist

Collections == {"reviews", "inquiries", "transactions", "notifications", "orders"}

\* the walk: its filter and limit, the page to read next, the ids received so
\* far, total and total_pages of the last response, the collection when page 1
\* was read and whether every later page saw that same collection
NoWalk == [transaction_type |-> 0, limit |-> 0, next |-> 0, got |-> <<>>,
           total |-> 0, total_pages |-> 0, coll |-> {}, same |-> FALSE,
           user_id |-> 0, favs |-> {}]

Init ==
    /\ now = 0
    /\ otp_storage = Empty
    /\ otps = Empty
    /\ users = {}
    /\ user_seq = 0
    /\ sms_out = NoSms
    /\ procs = [p \in Procs |-> IdleProc]
    /\ resp = NoResp
    /\ hist = [ph \in Phones |-> NoHist]
    /\ properties = {}
    /\ prop_seq = 0
    /\ favorites = {}
    /\ fav_seq = 0
    /\ db = [c \in Collections |-> {}]
    /\ seq = [c \in Collections \cup {"uploads"} |-> 0]
    /\ uploads = {}
    /\ walk = NoWalk

----------------------------------------------------------------------------
(* db.users queries and the unique indexes on email and on phone *)

\* variant: the users collection without its unique indexes
NoUniqueIndex(coll, doc) == FALSE

UserWithPhone(ph) == \E u \in users : u.phone = ph

UserWithEmail(e) == \E u \in users : u.email = e

\* the unique indexes created at startup reject the write (DuplicateKeyError)
DuplicateKey(coll, doc) ==
    \E u \in coll : u.id # doc.id /\ (u.email = doc.email \/ u.phone = doc.phone)

ValidPhoneFormat(ph) == ph # BadPhone

\* insert_one can still generate an _id within the bound
UserIdsLeft ==
    user_seq + Cardinality({q \in Procs : procs[q].op \in {"create_user", "signup"}})
        < MaxUserIds

----------------------------------------------------------------------------
(* POST /request-otp and POST /login/request-otp *)

\* only the format check
RequestOtpRejectsFormat(ph) == ~ValidPhoneFormat(ph)

\* the phone checks of request_otp: malformed, or already a user's
RequestOtpRejects(ph) == ~ValidPhoneFormat(ph) \/ UserWithPhone(ph)

\* the phone checks of login_request_otp: malformed (400), or no such user (404)
LoginRequestOtpStatus(ph) ==
    IF ~ValidPhoneFormat(ph) THEN 400
    ELSE IF ~UserWithPhone(ph) THEN 404
    ELSE 200

RequestOtp(p) ==
    /\ procs[p].pc = "idle"
    /\ \E ph \in OtpPhones \cup {BadPhone} :
         IF RequestOtpRejects(ph)
         THEN /\ resp' = Reply("request_otp", ph, 0, 400, TRUE)
              /\ UNCHANGED procs
         ELSE /\ Begin(p, "request_otp", ph, 0, "send_otp")
              /\ resp' = NoResp
    /\ UNCHANGED <<now, otp_storage, otps, users, user_seq, hist>> /\ sms_out' = NoSms /\ UNCHANGED listings /\ UNCHANGED others

LoginRequestOtp(p) ==
    /\ procs[p].pc = "idle"
    /\ \E ph \in OtpPhones \cup {BadPhone} :
         IF LoginRequestOtpStatus(ph) # 200
         THEN /\ resp' = Reply("login_request_otp", ph, 0, LoginRequestOtpStatus(ph), TRUE)
              /\ UNCHANGED procs
         ELSE /\ Begin(p, "login_request_otp", ph, 0, "send_otp")
              /\ resp' = NoResp
    /\ UNCHANGED <<now, otp_storage, otps, users, user_seq, hist>> /\ sms_out' = NoSms /\ UNCHANGED listings /\ UNCHANGED others

\* OTPService.send_otp up to its await: generate, store in the map
SendOtp(p) ==
    /\ procs[p].pc = "send_otp"
    /\ \E c \in Codes :
         /\ otp_storage' = Put(otp_storage, procs[p].phone, NewOtpRecord(c, now))
         /\ procs' = [procs EXCEPT ![p].pc = "send_sms", ![p].otp = c]
         /\ hist' = HistIssue(procs[p].phone, c, now)
    /\ resp' = NoResp
    /\ UNCHANGED <<now, otps, users, user_seq>> /\ sms_out' = NoSms /\ UNCHANGED listings /\ UNCHANGED others

\* a gateway failure that withdraws the OTP
SendSmsFailureWithdraws(p) ==
    /\ procs[p].pc = "send_sms"
    /\ \E ok \in BOOLEAN :
         /\ sms_out' = procs[p].phone
         /\ procs' = [procs EXCEPT ![p].pc = "store_otp", ![p].sms_ok = ok]
         /\ otp_storage' = IF ok THEN otp_storage ELSE Del(otp_storage, procs[p].phone)
    /\ resp' = NoResp
    /\ UNCHANGED <<now, otps, users, user_seq, hist>> /\ UNCHANGED listings /\ UNCHANGED others

\* OTPService.send_sms_via_nimbus: the gateway call succeeds or fails
SendSms(p) ==
    /\ procs[p].pc = "send_sms"
    /\ \E ok \in BOOLEAN :
         /\ sms_out' = procs[p].phone
         /\ procs' = [procs EXCEPT ![p].pc = "store_otp", ![p].sms_ok = ok]
    /\ resp' = NoResp
    /\ UNCHANGED <<now, otp_storage, otps, users, user_seq, hist>> /\ UNCHANGED listings /\ UNCHANGED others

\* OTPService.store_otp_in_db, then the 200 response
StoreOtpInDb(p) ==
    /\ procs[p].pc = "store_otp"
    /\ otps' = Put(otps, procs[p].phone, NewOtpRecord(procs[p].otp, now))
    /\ hist' = [hist EXCEPT ![procs[p].phone].exp = now + OtpValidMinutes]
    /\ Finish(p, 200)
    /\ UNCHANGED <<now, otp_storage, users, user_seq>> /\ sms_out' = NoSms /\ UNCHANGED listings /\ UNCHANGED others

----------------------------------------------------------------------------
(* POST /verify-otp and POST /login/verify-otp *)

\* verify_otp_from_db: find_one, then the expiry and attempts checks
VerifyPcAfterFind(ph) ==
    IF ph \notin DOMAIN otps THEN "v_mem"
    ELSE IF Expired(otps[ph]) \/ AttemptsExhausted(otps[ph]) THEN "v_delete"
    ELSE "v_inc"

VerifyStart(p, op) ==
    /\ procs[p].pc = "idle"
    /\ \E ph \in OtpPhones, c \in Codes :
         /\ procs' = [procs EXCEPT ![p] =
                [IdleProc EXCEPT !.pc = VerifyPcAfterFind(ph), !.op = op, !.phone = ph,
                                 !.otp = c,
                                 !.snap = IF ph \in DOMAIN otps THEN otps[ph].otp ELSE 0]]
         /\ hist' = HistTry(ph)
    /\ resp' = NoResp
    /\ UNCHANGED <<now, otp_storage, otps, users, user_seq>> /\ sms_out' = NoSms /\ UNCHANGED listings /\ UNCHANGED others

VerifyOtp(p) == VerifyStart(p, "verify_otp")

LoginVerifyOtp(p) == VerifyStart(p, "login_verify_otp")

\* verify_otp_from_db: delete_one of an expired or exhausted document
VerifyDelete(p) ==
    /\ procs[p].pc = "v_delete"
    /\ otps' = Del(otps, procs[p].phone)
    /\ Goto(p, "v_mem")
    /\ resp' = NoResp
    /\ UNCHANGED <<now, otp_storage, users, user_seq, hist>> /\ sms_out' = NoSms /\ UNCHANGED listings /\ UNCHANGED others

\* $inc attempts on whatever document the phone has now
IncAttempts(coll, ph) ==
    IF ph \in DOMAIN coll THEN [coll EXCEPT ![ph].attempts = @ + 1] ELSE coll

\* verify_otp_from_db: update_one $inc, then compare with the document read
VerifyInc(p) ==
    /\ procs[p].pc = "v_inc"
    /\ otps' = IncAttempts(otps, procs[p].phone)
    /\ procs' = [procs EXCEPT
                   ![p].pc = IF procs[p].snap = procs[p].otp THEN "v_set" ELSE "v_mem",
                   ![p].compared = TRUE]
    /\ hist' = HistCompare(p, procs[p].snap)
    /\ resp' = NoResp
    /\ UNCHANGED <<now, otp_storage, users, user_seq>> /\ sms_out' = NoSms /\ UNCHANGED listings /\ UNCHANGED others

\* the handler after either verification returned True
VerifiedAfter(p, h) ==
    /\ hist' = HistVerifiedIn(h, procs[p].phone, procs[p].otp)
    /\ IF procs[p].op = "verify_otp"
       THEN Finish(p, 200)
       ELSE Goto(p, "l_user") /\ resp' = NoResp

Verified(p) == VerifiedAfter(p, hist)

\* verify_otp_from_db: update_one $set verified
VerifySet(p) ==
    /\ procs[p].pc = "v_set"
    /\ otps' = IF procs[p].phone \in DOMAIN otps
               THEN [otps EXCEPT ![procs[p].phone].verified = TRUE]
               ELSE otps
    /\ Verified(p)
    /\ UNCHANGED <<now, otp_storage, users, user_seq>> /\ sms_out' = NoSms /\ UNCHANGED listings /\ UNCHANGED others

\* OTPService.verify_otp: the value it returns
VerifyOtpResult(ph, c) ==
    /\ ph \in DOMAIN otp_storage
    /\ ~Expired(otp_storage[ph])
    /\ ~AttemptsExhausted(otp_storage[ph])
    /\ otp_storage[ph].otp = c

\* OTPService.verify_otp reaches its comparison
VerifyOtpCompares(ph) ==
    /\ ph \in DOMAIN otp_storage
    /\ ~Expired(otp_storage[ph])
    /\ ~AttemptsExhausted(otp_storage[ph])

\* OTPService.verify_otp: the map it leaves
VerifyOtpStorage(ph, c) ==
    IF ph \notin DOMAIN otp_storage THEN otp_storage
    ELSE IF Expired(otp_storage[ph]) \/ AttemptsExhausted(otp_storage[ph])
         THEN Del(otp_storage, ph)
    ELSE [otp_storage EXCEPT ![ph].attempts = @ + 1,
                             ![ph].verified = @ \/ otp_storage[ph].otp = c]

\* the fallback to memory after verify_otp_from_db returned False
VerifyMem(p) ==
    /\ procs[p].pc = "v_mem"
    /\ otp_storage' = VerifyOtpStorage(procs[p].phone, procs[p].otp)
    /\ LET h == IF VerifyOtpCompares(procs[p].phone)
                THEN HistCompare(p, otp_storage[procs[p].phone].otp)
                ELSE hist
       IN IF VerifyOtpResult(procs[p].phone, procs[p].otp)
          THEN VerifiedAfter(p, h)
          ELSE Finish(p, 400) /\ hist' = h
    /\ UNCHANGED <<now, otps, users, user_seq>> /\ sms_out' = NoSms /\ UNCHANGED listings /\ UNCHANGED others

\* login_verify_otp: users.find_one by phone
LoginFindUser(p) ==
    /\ procs[p].pc = "l_user"
    /\ IF UserWithPhone(procs[p].phone)
       THEN Goto(p, "clear_db") /\ resp' = NoResp
       ELSE Finish(p, 404)
    /\ UNCHANGED <<now, otp_storage, otps, users, user_seq, hist>> /\ sms_out' = NoSms /\ UNCHANGED listings /\ UNCHANGED others

\* OTPService.clear_otp_from_db
ClearOtpFromDb(p) ==
    /\ procs[p].pc = "clear_db"
    /\ otps' = Del(otps, procs[p].phone)
    /\ Goto(p, "clear_mem")
    /\ resp' = NoResp
    /\ UNCHANGED <<now, otp_storage, users, user_seq, hist>> /\ sms_out' = NoSms /\ UNCHANGED listings /\ UNCHANGED others

\* a clear that leaves the record
ClearedStorageKeeps(ph) == otp_storage

\* OTPService.clear_otp: the map it leaves
ClearedStorage(ph) == Del(otp_storage, ph)

\* OTPService.clear_otp, then the success response of signup or login
ClearOtp(p) ==
    /\ procs[p].pc = "clear_mem"
    /\ otp_storage' = ClearedStorage(procs[p].phone)
    /\ hist' = [hist EXCEPT ![procs[p].phone] = NoHist]
    /\ Finish(p, IF procs[p].op = "signup" THEN 201 ELSE 200)
    /\ UNCHANGED <<now, otps, users, user_seq>> /\ sms_out' = NoSms /\ UNCHANGED listings /\ UNCHANGED others

----------------------------------------------------------------------------
(* POST /signup *)

\* signup: is_otp_verified_from_db (find_one on db.otps)
Signup(p) ==
    /\ procs[p].pc = "idle"
    /\ UserIdsLeft
    /\ \E ph \in OtpPhones, e \in AllEmails \cup {NoEmail} :
         procs' = [procs EXCEPT ![p] =
            [IdleProc EXCEPT !.pc = IF IsOtpVerifiedFromDb(ph) THEN "s_user" ELSE "s_mem",
                             !.op = "signup", !.phone = ph, !.email = e]]
    /\ resp' = NoResp
    /\ UNCHANGED <<now, otp_storage, otps, users, user_seq, hist>> /\ sms_out' = NoSms /\ UNCHANGED listings /\ UNCHANGED others

\* signup: the fallback is_otp_verified on the map, 400 when not verified
SignupCheckMem(p) ==
    /\ procs[p].pc = "s_mem"
    /\ IF IsOtpVerified(procs[p].phone)
       THEN Goto(p, "s_user") /\ resp' = NoResp
       ELSE Finish(p, 400)
    /\ UNCHANGED <<now, otp_storage, otps, users, user_seq, hist>> /\ sms_out' = NoSms /\ UNCHANGED listings /\ UNCHANGED others

\* the email signup stores: the request's, or the temporary one
SignupEmail(ph, e) == IF e = NoEmail THEN TempEmail(ph) ELSE e

\* signup: users.find_one by phone, terms_accepted, the email to use
SignupFindUser(p) ==
    /\ procs[p].pc = "s_user"
    /\ \E terms_accepted \in BOOLEAN :
         IF UserWithPhone(procs[p].phone) \/ ~terms_accepted
         THEN Finish(p, 400)
         ELSE /\ procs' = [procs EXCEPT
                    ![p].email = SignupEmail(procs[p].phone, procs[p].email),
                    ![p].pc = IF IsTempEmail(SignupEmail(procs[p].phone, procs[p].email))
                              THEN "s_insert" ELSE "s_email"]
              /\ resp' = NoResp
    /\ UNCHANGED <<now, otp_storage, otps, users, user_seq, hist>> /\ sms_out' = NoSms /\ UNCHANGED listings /\ UNCHANGED others

\* signup: users.find_one by email
SignupFindEmail(p) ==
    /\ procs[p].pc = "s_email"
    /\ IF UserWithEmail(procs[p].email)
       THEN Finish(p, 400)
       ELSE Goto(p, "s_insert") /\ resp' = NoResp
    /\ UNCHANGED <<now, otp_storage, otps, users, user_seq, hist>> /\ sms_out' = NoSms /\ UNCHANGED listings /\ UNCHANGED others

\* signup: users.insert_one; a DuplicateKeyError is not handled (500)
SignupInsert(p) ==
    /\ procs[p].pc = "s_insert"
    /\ LET doc == [id |-> user_seq + 1, phone |-> procs[p].phone, email |-> procs[p].email]
       IN IF DuplicateKey(users, doc)
          THEN Finish(p, 500) /\ UNCHANGED <<users, user_seq>>
          ELSE /\ users' = users \cup {doc}
               /\ user_seq' = user_seq + 1
               /\ Goto(p, "clear_db")
               /\ resp' = NoResp
    /\ UNCHANGED <<now, otp_storage, otps, hist>> /\ sms_out' = NoSms /\ UNCHANGED listings /\ UNCHANGED others

----------------------------------------------------------------------------
(* Time, and the TTL index on db.otps.expires_at *)

Tick ==
    /\ now < MaxTicks * TickMinutes
    /\ now' = now + TickMinutes
    /\ resp' = NoResp
    /\ UNCHANGED <<otp_storage, otps, users, user_seq, procs, hist>> /\ sms_out' = NoSms /\ UNCHANGED listings /\ UNCHANGED others

\* expireAfterSeconds=0: the server deletes a document some time after expires_at
TtlDelete ==
    /\ \E ph \in DOMAIN otps :
         /\ Expired(otps[ph])
         /\ otps' = Del(otps, ph)
    /\ resp' = NoResp
    /\ UNCHANGED <<now, otp_storage, users, user_seq, procs, hist>> /\ sms_out' = NoSms /\ UNCHANGED listings /\ UNCHANGED others

----------------------------------------------------------------------------
(* /api/users *)

\* the auth state a handler outside auth.py leaves alone
AuthIdle == UNCHANGED <<now, otp_storage, otps, hist>> /\ sms_out' = NoSms

CrudReply(op, uid, pid, st) == [NoResp EXCEPT !.op = op, !.uid = uid, !.pid = pid, !.status = st]

UserExists(uid) == \E u \in users : u.id = uid

\* create_user: users.find_one by email
CreateUserFrom(p, emails, phones) ==
    /\ procs[p].pc = "idle"
    /\ UserIdsLeft
    /\ \E e \in emails, ph \in phones :
         IF UserWithEmail(e)
         THEN /\ resp' = [CrudReply("create_user", 0, 0, 400) EXCEPT !.email = e, !.phone = ph]
              /\ UNCHANGED procs
         ELSE /\ procs' = [procs EXCEPT ![p] =
                    [IdleProc EXCEPT !.pc = "u_insert", !.op = "create_user",
                                     !.email = e, !.phone = ph]]
              /\ resp' = NoResp
    /\ UNCHANGED <<users, user_seq>> /\ UNCHANGED listings /\ AuthIdle /\ UNCHANGED others

CreateUser(p) == CreateUserFrom(p, AllEmails, Phones)

\* create_user with one body
CreatePlainUser(p) == CreateUserFrom(p, {1}, {1})

\* create_user: users.insert_one; a DuplicateKeyError is not handled (500)
UserInsert(p) ==
    /\ procs[p].pc = "u_insert"
    /\ LET doc == [id |-> user_seq + 1, phone |-> procs[p].phone, email |-> procs[p].email]
       IN IF DuplicateKey(users, doc)
          THEN Finish(p, 500) /\ UNCHANGED <<users, user_seq>>
          ELSE /\ users' = users \cup {doc}
               /\ user_seq' = user_seq + 1
               /\ procs' = [procs EXCEPT ![p].pc = "u_fetch", ![p].uid = doc.id]
               /\ resp' = NoResp
    /\ UNCHANGED listings /\ AuthIdle /\ UNCHANGED others

\* create_user: users.find_one by the inserted _id; None is subscripted (500)
UserFetch(p) ==
    /\ procs[p].pc = "u_fetch"
    /\ Finish(p, IF UserExists(procs[p].uid) THEN 201 ELSE 500)
    /\ UNCHANGED <<users, user_seq>> /\ UNCHANGED listings /\ AuthIdle /\ UNCHANGED others

\* update_user / update_profile: the checks before update_one
UpdateStatusBefore(uid, e, ph, other) ==
    IF uid = BadId THEN 400
    ELSE IF e = Absent /\ ph = Absent /\ ~other THEN 400
    ELSE IF e # Absent /\ (\E u \in users : u.email = e /\ u.id # uid) THEN 400
    ELSE 0

\* the handler up to its first database call, for requests drawn from the given
\* path ids, emails, phones and presence of another field
UpdateStartFrom(p, op, uids, emails, phones, rest) ==
    /\ procs[p].pc = "idle"
    /\ \E uid \in uids, e \in emails, ph \in phones, other \in rest :
         IF UpdateStatusBefore(uid, e, ph, other) # 0
         THEN /\ resp' = [CrudReply(op, uid, 0, UpdateStatusBefore(uid, e, ph, other))
                            EXCEPT !.email = e, !.phone = ph,
                                   !.body = [other |-> other]]
              /\ UNCHANGED procs
         ELSE /\ procs' = [procs EXCEPT ![p] =
                    [IdleProc EXCEPT !.pc = "uu_update", !.op = op, !.uid = uid,
                                     !.email = e, !.phone = ph]]
              /\ resp' = NoResp
    /\ UNCHANGED <<users, user_seq>> /\ UNCHANGED listings /\ AuthIdle /\ UNCHANGED others

UpdateStart(p, op) ==
    UpdateStartFrom(p, op, UserIds \cup {BadId}, AllEmails \cup {Absent},
                    Phones \cup {Absent}, BOOLEAN)

UpdateUser(p) == UpdateStart(p, "update_user")

UpdateProfile(p) == UpdateStart(p, "update_profile")

\* $set of the fields the request carries
SetFields(u, e, ph) ==
    [u EXCEPT !.email = IF e = Absent THEN @ ELSE e,
              !.phone = IF ph = Absent THEN @ ELSE ph]

\* update_user / update_profile: users.update_one; matched_count 0 is 404
UserUpdate(p) ==
    /\ procs[p].pc = "uu_update"
    /\ IF ~UserExists(procs[p].uid)
       THEN Finish(p, 404) /\ UNCHANGED users
       ELSE LET u == CHOOSE x \in users : x.id = procs[p].uid
                new == SetFields(u, procs[p].email, procs[p].phone)
            IN IF DuplicateKey(users, new)
               THEN Finish(p, 500) /\ UNCHANGED users
               ELSE /\ users' = (users \ {u}) \cup {new}
                    /\ Goto(p, "uu_fetch")
                    /\ resp' = NoResp
    /\ UNCHANGED user_seq /\ UNCHANGED listings /\ AuthIdle /\ UNCHANGED others

\* update_user / update_profile: users.find_one by _id; None is subscripted (500)
UserUpdateFetch(p) ==
    /\ procs[p].pc = "uu_fetch"
    /\ Finish(p, IF UserExists(procs[p].uid) THEN 200 ELSE 500)
    /\ UNCHANGED <<users, user_seq>> /\ UNCHANGED listings /\ AuthIdle /\ UNCHANGED others

\* delete_user
DeleteUser(p) ==
    /\ procs[p].pc = "idle"
    /\ \E uid \in UserIds \cup {BadId} :
         /\ resp' = CrudReply("delete_user", uid, 0,
                        IF uid = BadId THEN 400 ELSE IF UserExists(uid) THEN 204 ELSE 404)
         /\ users' = {u \in users : u.id # uid}
    /\ UNCHANGED <<procs, user_seq>> /\ UNCHANGED listings /\ AuthIdle /\ UNCHANGED others

----------------------------------------------------------------------------
(* /api/properties *)

PropertyExists(pid) == \E x \in properties : x.id = pid

\* owner_id strings and the other fields of a PropertyCreate body
OwnerIdStrings == UserIds \cup {UpperCase(u) : u \in UserIds} \cup {BadId}

PropertyBodies == [transaction_type : TxTypes, price : Prices]

PlainBody == [transaction_type |-> 1, price |-> 1]

\* variant: the response loses the price
RenderWithoutPrice(d) == [d EXCEPT !.price = 0]

\* the document as the handlers return it: _id and owner_id through str()
RenderProperty(d) == [d EXCEPT !.id = StrOf(d.id), !.owner_id = StrOf(d.owner_id)]

\* create_property: ObjectId(owner_id) raises on a malformed id (500), then
\* properties.insert_one
CreatePropertyFrom(p, owners, bodies) ==
    /\ procs[p].pc = "idle"
    /\ prop_seq < MaxPropIds
    /\ \E owner \in owners, b \in bodies :
         IF ~IsValidId(owner)
         THEN /\ resp' = [CrudReply("create_property", owner, 0, 500) EXCEPT
                            !.body = [owner_id |-> owner,
                                      transaction_type |-> b.transaction_type,
                                      price |-> b.price]]
              /\ UNCHANGED <<procs, properties, prop_seq>>
         ELSE /\ properties' = properties \cup
                    {[id |-> prop_seq + 1, owner_id |-> ObjectIdOf(owner), posted_at |-> now,
                      transaction_type |-> b.transaction_type, price |-> b.price]}
              /\ prop_seq' = prop_seq + 1
              /\ procs' = [procs EXCEPT ![p] =
                    [IdleProc EXCEPT !.pc = "p_fetch", !.op = "create_property",
                                     !.uid = ObjectIdOf(owner), !.pid = prop_seq + 1,
                                     !.body = [owner_id |-> owner,
                                               transaction_type |-> b.transaction_type,
                                               price |-> b.price]]]
              /\ resp' = NoResp
    /\ UNCHANGED <<users, user_seq, favorites, fav_seq>> /\ AuthIdle /\ UNCHANGED others

CreateProperty(p) == CreatePropertyFrom(p, OwnerIdStrings, PropertyBodies)

\* create_property with one body and lower-case owner ids
CreatePlainProperty(p) == CreatePropertyFrom(p, UserIds \cup {BadId}, {PlainBody})

\* create_property: properties.find_one by the inserted _id; None is
\* subscripted (500)
PropFetch(p) ==
    /\ procs[p].pc = "p_fetch"
    /\ IF PropertyExists(procs[p].pid)
       THEN resp' = [ReplyOf(p, 201) EXCEPT
                !.ret = RenderProperty(CHOOSE d \in properties : d.id = procs[p].pid)]
       ELSE resp' = ReplyOf(p, 500)
    /\ procs' = [procs EXCEPT ![p] = IdleProc]
    /\ UNCHANGED <<users, user_seq>> /\ UNCHANGED listings /\ AuthIdle /\ UNCHANGED others

\* get_property
GetProperty(p) ==
    /\ procs[p].pc = "idle"
    /\ \E pid \in PropIds \cup {BadId} :
         resp' = [CrudReply("get_property", 0, pid,
                      IF ~IsValidId(pid) THEN 400
                      ELSE IF PropertyExists(pid) THEN 200 ELSE 404) EXCEPT
                    !.ret = IF PropertyExists(pid)
                            THEN RenderProperty(CHOOSE d \in properties : d.id = pid)
                            ELSE NoDoc]
    /\ UNCHANGED <<procs, users, user_seq>> /\ UNCHANGED listings /\ AuthIdle /\ UNCHANGED others

\* get_properties: the documents the query selects (transaction_type filter)
Matching(coll, tx) == {d \in coll : tx = Absent \/ d.transaction_type = tx}

\* find(query).sort([("posted_at", -1)]): the orders the server may return the
\* selected documents in; the order among equal posted_at is not specified
SortedOrders(S) ==
    {o \in [1..Cardinality(S) -> S] :
        /\ \A i, j \in 1..Cardinality(S) : i # j => o[i] # o[j]
        /\ \A i, j \in 1..Cardinality(S) : i < j => o[i].posted_at >= o[j].posted_at}

\* .skip(skip).limit(limit) of an order, as the list of _id
PageOf(o, skip, limit) ==
    [i \in 1..(IF Len(o) <= skip THEN 0
               ELSE IF Len(o) - skip < limit THEN Len(o) - skip ELSE limit)
        |-> o[skip + i].id]

\* math.ceil(total / limit) if total > 0 else 0
TotalPages(total, limit) == IF total > 0 THEN (total + limit - 1) \div limit ELSE 0

\* the client reads page 1, or the page after the last one it read
WalkContinues(tx, limit) ==
    /\ walk.limit = limit
    /\ walk.transaction_type = tx
    /\ walk.next <= walk.total_pages

\* get_properties: properties.count_documents(query)
GetProperties(p) ==
    /\ procs[p].pc = "idle"
    /\ \E tx \in TxTypes \cup {Absent}, limit \in 1..MaxLimit, first \in BOOLEAN :
         /\ ~first => WalkContinues(tx, limit)
         /\ procs' = [procs EXCEPT ![p] =
               [IdleProc EXCEPT !.pc = "l_find", !.op = "get_properties",
                                !.body = [transaction_type |-> tx, limit |-> limit,
                                          page |-> IF first THEN 1 ELSE walk.next,
                                          total |-> Cardinality(Matching(properties, tx))]]]
    /\ resp' = NoResp
    /\ UNCHANGED <<users, user_seq, walk>> /\ UNCHANGED listings /\ AuthIdle
    /\ UNCHANGED <<db, seq, uploads>>

\* get_properties: find(query).sort(...).skip(skip).limit(limit) and the
\* pagination metadata
PropertiesFind(p) ==
    /\ procs[p].pc = "l_find"
    /\ LET b == procs[p].body
           tp == TotalPages(b.total, b.limit)
       IN \E o \in SortedOrders(Matching(properties, b.transaction_type)) :
            LET items == PageOf(o, (b.page - 1) * b.limit, b.limit)
            IN walk' = IF b.page = 1
                       THEN [transaction_type |-> b.transaction_type, limit |-> b.limit,
                             next |-> 2, got |-> items, total |-> b.total,
                             total_pages |-> tp, coll |-> properties, same |-> TRUE,
                             user_id |-> 0, favs |-> {}]
                       ELSE [walk EXCEPT !.next = @ + 1, !.got = @ \o items,
                                         !.total = b.total, !.total_pages = tp,
                                         !.same = @ /\ properties = walk.coll]
    /\ Finish(p, 200)
    /\ UNCHANGED <<users, user_seq>> /\ UNCHANGED listings /\ AuthIdle
    /\ UNCHANGED <<db, seq, uploads>>

\* variant: the delete removes the documents that reference the property too
CascadingDeleteProperty(p) ==
    /\ procs[p].pc = "idle"
    /\ \E pid \in PropIds \cup {BadId} :
         /\ resp' = CrudReply("delete_property", 0, pid,
                        IF pid = BadId THEN 400 ELSE IF PropertyExists(pid) THEN 204 ELSE 404)
         /\ properties' = {x \in properties : x.id # pid}
         /\ favorites' = {f \in favorites : f.property_id # pid}
         /\ db' = [c \in DOMAIN db |->
                     {d \in db[c] : "property_id" \notin DOMAIN d \/ d.property_id # pid}]
    /\ UNCHANGED <<procs, users, user_seq, prop_seq, fav_seq>> /\ AuthIdle
    /\ UNCHANGED <<seq, uploads, walk>>

\* delete_property
DeleteProperty(p) ==
    /\ procs[p].pc = "idle"
    /\ \E pid \in PropIds \cup {BadId} :
         /\ resp' = CrudReply("delete_property", 0, pid,
                        IF pid = BadId THEN 400 ELSE IF PropertyExists(pid) THEN 204 ELSE 404)
         /\ properties' = {x \in properties : x.id # pid}
    /\ UNCHANGED <<procs, users, user_seq, prop_seq, favorites, fav_seq>> /\ AuthIdle /\ UNCHANGED others

----------------------------------------------------------------------------
(* /api/favorites *)

\* variant: the lookup for the pair finds nothing
FavoriteNeverFound(uid, pid) == FALSE

\* favorites.find_one({"user_id": ..., "property_id": ...})
FavoriteExists(uid, pid) == \E f \in favorites : f.user_id = uid /\ f.property_id = pid

\* the unique index on (user_id, property_id) rejects the insert
FavDuplicateKey(coll, doc) ==
    \E f \in coll : f.user_id = doc.user_id /\ f.property_id = doc.property_id

\* the pair has a favorite when the request arrives
PairHasFavorite(uid, pid) == \E f \in favorites : f.user_id = uid /\ f.property_id = pid

FavIdsLeft ==
    fav_seq + Cardinality({q \in Procs : procs[q].op = "create_favorite"}) < MaxFavIds

\* create_favorite: the checks up to properties.find_one and the user id check
\* variant: the identifiers are validated, the property is not looked up
StatusWithoutLookup(uid, pid) ==
    IF pid = BadId THEN 400
    ELSE IF uid = BadId THEN 400
    ELSE 0

FavStatusBefore(uid, pid) ==
    IF pid = BadId THEN 400
    ELSE IF ~PropertyExists(pid) THEN 404
    ELSE IF uid = BadId THEN 400
    ELSE 0

CreateFavorite(p) ==
    /\ procs[p].pc = "idle"
    /\ FavIdsLeft
    /\ \E uid \in UserIds \cup {BadId}, pid \in PropIds \cup {BadId} :
         IF FavStatusBefore(uid, pid) # 0
         THEN /\ resp' = [CrudReply("create_favorite", uid, pid, FavStatusBefore(uid, pid))
                            EXCEPT !.had = PairHasFavorite(uid, pid)]
              /\ UNCHANGED procs
         ELSE /\ procs' = [procs EXCEPT ![p] =
                    [IdleProc EXCEPT !.pc = "f_user", !.op = "create_favorite",
                                     !.uid = uid, !.pid = pid,
                                     !.had = PairHasFavorite(uid, pid)]]
              /\ resp' = NoResp
    /\ UNCHANGED <<users, user_seq>> /\ UNCHANGED listings /\ AuthIdle /\ UNCHANGED others

\* create_favorite: users.find_one
FavFindUser(p) ==
    /\ procs[p].pc = "f_user"
    /\ IF UserExists(procs[p].uid)
       THEN Goto(p, "f_exist") /\ resp' = NoResp
       ELSE Finish(p, 404)
    /\ UNCHANGED <<users, user_seq>> /\ UNCHANGED listings /\ AuthIdle /\ UNCHANGED others

\* create_favorite: favorites.find_one for the pair
FavFindExisting(p) ==
    /\ procs[p].pc = "f_exist"
    /\ IF FavoriteExists(procs[p].uid, procs[p].pid)
       THEN Finish(p, 400)
       ELSE Goto(p, "f_insert") /\ resp' = NoResp
    /\ UNCHANGED <<users, user_seq>> /\ UNCHANGED listings /\ AuthIdle /\ UNCHANGED others

\* create_favorite: favorites.insert_one; a DuplicateKeyError is not handled (500)
FavInsert(p) ==
    /\ procs[p].pc = "f_insert"
    /\ LET doc == [id |-> fav_seq + 1, user_id |-> procs[p].uid, property_id |-> procs[p].pid]
       IN IF FavDuplicateKey(favorites, doc)
          THEN Finish(p, 500) /\ UNCHANGED <<favorites, fav_seq>>
          ELSE /\ favorites' = favorites \cup {doc}
               /\ fav_seq' = fav_seq + 1
               /\ procs' = [procs EXCEPT ![p].pc = "f_fetch", ![p].doc = doc.id]
               /\ resp' = NoResp
    /\ UNCHANGED <<users, user_seq, properties, prop_seq>> /\ AuthIdle /\ UNCHANGED others

\* create_favorite: favorites.find_one by the inserted _id
FavFetch(p) ==
    /\ procs[p].pc = "f_fetch"
    /\ Finish(p, IF \E f \in favorites : f.id = procs[p].doc THEN 201 ELSE 500)
    /\ UNCHANGED <<users, user_seq>> /\ UNCHANGED listings /\ AuthIdle /\ UNCHANGED others

\* delete_favorite: favorites.delete_one by _id; deleted_count 0 is 404
DeleteFavorite(p) ==
    /\ procs[p].pc = "idle"
    /\ \E fid \in 0..MaxFavIds :
         /\ resp' = [NoResp EXCEPT !.op = "delete_favorite", !.fid = fid,
                        !.status = IF fid = BadId THEN 400
                                   ELSE IF \E f \in favorites : f.id = fid THEN 204 ELSE 404]
         /\ favorites' = {f \in favorites : f.id # fid}
    /\ UNCHANGED <<procs, users, user_seq, properties, prop_seq, fav_seq>> /\ AuthIdle /\ UNCHANGED others

\* get_favorite
GetFavorite(p) ==
    /\ procs[p].pc = "idle"
    /\ \E fid \in 0..MaxFavIds :
         resp' = [NoResp EXCEPT !.op = "get_favorite", !.fid = fid,
                    !.status = IF ~IsValidId(fid) THEN 400
                               ELSE IF \E f \in favorites : f.id = fid THEN 200 ELSE 404]
    /\ UNCHANGED <<procs, users, user_seq>> /\ UNCHANGED listings /\ AuthIdle
    /\ UNCHANGED others

\* remove_favorite_by_property: favorites.delete_one for the pair
RemoveFavoriteByProperty(p) ==
    /\ procs[p].pc = "idle"
    /\ \E uid \in UserIds \cup {BadId}, pid \in PropIds \cup {BadId} :
         /\ resp' = CrudReply("remove_favorite_by_property", uid, pid,
                        IF ~IsValidId(uid) \/ ~IsValidId(pid) THEN 400
                        ELSE IF FavoriteExists(uid, pid) THEN 204 ELSE 404)
         /\ favorites' = {f \in favorites : ~(f.user_id = uid /\ f.property_id = pid)}
    /\ UNCHANGED <<procs, users, user_seq, properties, prop_seq, fav_seq>> /\ AuthIdle
    /\ UNCHANGED others

\* get_user
GetUser(p) ==
    /\ procs[p].pc = "idle"
    /\ \E uid \in UserIds \cup {BadId} :
         resp' = CrudReply("get_user", uid, 0,
                     IF ~IsValidId(uid) THEN 400 ELSE IF UserExists(uid) THEN 200 ELSE 404)
    /\ UNCHANGED <<procs, users, user_seq>> /\ UNCHANGED listings /\ AuthIdle
    /\ UNCHANGED others

----------------------------------------------------------------------------
(* Partial updates: update.dict(exclude_unset=True) and {"$set": ...} *)

\* the request bodies over the fields an Update schema declares: any subset
\* of the fields may be present
UpdateBodies(fields, values) == UNION {[F -> values] : F \in SUBSET fields}

\* variant: the update replaces the fields it does not carry as well
ReplaceBy(d, data) ==
    [k \in DOMAIN d \cup DOMAIN data |->
        IF k \in DOMAIN data THEN data[k] ELSE IF k = "id" THEN d[k] ELSE 0]

\* {"$set": update_data} applied to a document
SetOf(d, data) ==
    [k \in DOMAIN d \cup DOMAIN data |-> IF k \in DOMAIN data THEN data[k] ELSE d[k]]

\* update_property: the checks, then properties.update_one; matched_count 0
\* is 404
UpdatePropertyFrom(p, bodies) ==
    /\ procs[p].pc = "idle"
    /\ \E pid \in PropIds \cup {BadId}, data \in bodies :
         IF ~IsValidId(pid) \/ DOMAIN data = {} \/ ~PropertyExists(pid)
         THEN /\ resp' = [CrudReply("update_property", 0, pid,
                              IF ~IsValidId(pid) \/ DOMAIN data = {} THEN 400 ELSE 404)
                            EXCEPT !.body = data]
              /\ UNCHANGED <<procs, properties>>
         ELSE /\ properties' = {IF d.id = pid THEN SetOf(d, data) ELSE d : d \in properties}
              /\ procs' = [procs EXCEPT ![p] =
                    [IdleProc EXCEPT !.pc = "pu_fetch", !.op = "update_property",
                                     !.pid = pid, !.body = data]]
              /\ resp' = NoResp
    /\ UNCHANGED <<users, user_seq, prop_seq, favorites, fav_seq>> /\ AuthIdle
    /\ UNCHANGED others

UpdateProperty(p) ==
    UpdatePropertyFrom(p, UpdateBodies({"transaction_type", "price"}, TxTypes))

\* update_property: properties.find_one; None is subscripted (500)
PropUpdateFetch(p) ==
    /\ procs[p].pc = "pu_fetch"
    /\ IF PropertyExists(procs[p].pid)
       THEN resp' = [ReplyOf(p, 200) EXCEPT
                !.ret = RenderProperty(CHOOSE d \in properties : d.id = procs[p].pid)]
       ELSE resp' = ReplyOf(p, 500)
    /\ procs' = [procs EXCEPT ![p] = IdleProc]
    /\ UNCHANGED <<users, user_seq>> /\ UNCHANGED listings /\ AuthIdle
    /\ UNCHANGED others

----------------------------------------------------------------------------
(* /api/reviews, /api/inquiries, /api/transactions, /api/notifications,    *)
(* /api/orders: the handlers of these routers have the same shape          *)

Vals == 1..NVals
DocIds == 1..MaxDocIds

\* the state of the auth, users, properties and favorites routers
CoreIdle == UNCHANGED <<users, user_seq>> /\ UNCHANGED listings /\ AuthIdle

\* variant: every lookup by _id finds a document
DocAlwaysExists(c, id) == TRUE

DocExists(c, id) == \E d \in db[c] : d.id = id

\* insert_one can still generate an _id within the bounds
DocIdsLeft(c) ==
    /\ seq[c] < MaxDocIds
    /\ seq["reviews"] + seq["inquiries"] + seq["transactions"] + seq["notifications"]
         + seq["orders"] < MaxDocs

DocReply(op, id, st) == [NoResp EXCEPT !.op = op, !.fid = id, !.status = st]

\* the collection a handler works on
CollOf(op) ==
    CASE op \in {"create_review", "get_review", "update_review", "delete_review"}
           -> "reviews"
      [] op \in {"create_inquiry", "get_inquiry", "update_inquiry", "delete_inquiry"}
           -> "inquiries"
      [] op \in {"create_transaction", "get_transaction", "delete_transaction"}
           -> "transactions"
      [] op \in {"create_notification", "get_notification", "update_notification",
                 "delete_notification"} -> "notifications"
      [] op \in {"create_order", "get_order", "update_order"} -> "orders"

\* the fields of the request bodies besides property_id and user_id
CreateBodies(op) ==
    CASE op = "create_review" -> [rating : Vals, comment : Vals]
      [] op = "create_inquiry" -> [message : Vals]
      [] op = "create_transaction" -> [seller_id : UserIds \cup {BadId}, amount : Vals]
      [] op = "create_notification" -> [read : Vals, action_text : Vals]
      [] op = "create_order" -> [status : Vals, amount : Vals]

\* one body per handler
PlainBodies(op) ==
    CASE op = "create_review" -> {[rating |-> 1, comment |-> 1]}
      [] op = "create_inquiry" -> {[message |-> 1]}
      [] op = "create_transaction" -> [seller_id : UserIds \cup {BadId}, amount : {1}]
      [] op = "create_notification" -> {[read |-> 1, action_text |-> 1]}
      [] op = "create_order" -> {[status |-> 1, amount |-> 1]}

\* the document insert_one stores
NewDoc(op, id, pid, uid, b) ==
    CASE op = "create_review" ->
           [id |-> id, property_id |-> pid, user_id |-> uid,
            rating |-> b.rating, comment |-> b.comment]
      [] op = "create_inquiry" ->
           [id |-> id, property_id |-> pid, user_id |-> uid,
            message |-> b.message, status |-> 1]
      [] op = "create_transaction" ->
           [id |-> id, property_id |-> pid, buyer_id |-> uid,
            seller_id |-> ObjectIdOf(b.seller_id), amount |-> b.amount]
      [] op = "create_notification" ->
           [id |-> id, user_id |-> uid, read |-> b.read, action_text |-> b.action_text]
      [] op = "create_order" ->
           [id |-> id, user_id |-> uid, status |-> b.status, amount |-> b.amount]

\* create_review, create_inquiry, create_transaction: the checks up to
\* properties.find_one and the user id check
CreateWithRefs(p, op, bodies) ==
    /\ procs[p].pc = "idle"
    /\ DocIdsLeft(CollOf(op))
    /\ \E uid \in UserIds \cup {BadId}, pid \in PropIds \cup {BadId}, b \in bodies :
         IF FavStatusBefore(uid, pid) # 0
         THEN /\ resp' = [CrudReply(op, uid, pid, FavStatusBefore(uid, pid))
                            EXCEPT !.body = b]
              /\ UNCHANGED procs
         ELSE /\ procs' = [procs EXCEPT ![p] =
                    [IdleProc EXCEPT !.pc = "c_user", !.op = op, !.uid = uid,
                                     !.pid = pid, !.body = b]]
              /\ resp' = NoResp
    /\ CoreIdle /\ UNCHANGED others

CreateReview(p) == CreateWithRefs(p, "create_review", CreateBodies("create_review"))

CreateInquiry(p) == CreateWithRefs(p, "create_inquiry", CreateBodies("create_inquiry"))

CreateTransaction(p) ==
    CreateWithRefs(p, "create_transaction", CreateBodies("create_transaction"))

\* users.find_one for user_id (buyer_id); create_transaction then checks the
\* seller id
RefFindUser(p) ==
    /\ procs[p].pc = "c_user"
    /\ IF ~UserExists(procs[p].uid)
       THEN Finish(p, 404)
       ELSE IF procs[p].op # "create_transaction"
       THEN Goto(p, "c_insert") /\ resp' = NoResp
       ELSE IF ~IsValidId(procs[p].body.seller_id)
       THEN Finish(p, 400)
       ELSE Goto(p, "c_seller") /\ resp' = NoResp
    /\ CoreIdle /\ UNCHANGED others

\* create_transaction: users.find_one for seller_id
RefFindSeller(p) ==
    /\ procs[p].pc = "c_seller"
    /\ IF UserExists(ObjectIdOf(procs[p].body.seller_id))
       THEN Goto(p, "c_insert") /\ resp' = NoResp
       ELSE Finish(p, 404)
    /\ CoreIdle /\ UNCHANGED others

\* insert_one of the new document
DocInsert(p) ==
    /\ procs[p].pc = "c_insert"
    /\ LET c == CollOf(procs[p].op)
           d == NewDoc(procs[p].op, seq[c] + 1, procs[p].pid, procs[p].uid, procs[p].body)
       IN /\ db' = [db EXCEPT ![c] = @ \cup {d}]
          /\ seq' = [seq EXCEPT ![c] = @ + 1]
          /\ procs' = [procs EXCEPT ![p].pc = "c_fetch", ![p].doc = d.id]
    /\ resp' = NoResp
    /\ CoreIdle /\ UNCHANGED <<uploads, walk>>

\* find_one by the inserted _id; None is subscripted (500)
DocFetch(p) ==
    /\ procs[p].pc = "c_fetch"
    /\ Finish(p, IF DocExists(CollOf(procs[p].op), procs[p].doc) THEN 201 ELSE 500)
    /\ CoreIdle /\ UNCHANGED others

\* create_notification, create_order: ObjectId(doc["user_id"]) raises on a
\* malformed id (500), then insert_one
CreateForUser(p, op, bodies) ==
    /\ procs[p].pc = "idle"
    /\ DocIdsLeft(CollOf(op))
    /\ \E uid \in UserIds \cup {BadId}, b \in bodies :
         IF ~IsValidId(uid)
         THEN /\ resp' = [CrudReply(op, uid, 0, 500) EXCEPT !.body = b]
              /\ UNCHANGED <<procs, db, seq>>
         ELSE LET c == CollOf(op)
                  d == NewDoc(op, seq[c] + 1, 0, ObjectIdOf(uid), b)
              IN /\ db' = [db EXCEPT ![c] = @ \cup {d}]
                 /\ seq' = [seq EXCEPT ![c] = @ + 1]
                 /\ procs' = [procs EXCEPT ![p] =
                       [IdleProc EXCEPT !.pc = "c_fetch", !.op = op, !.uid = uid,
                                        !.doc = d.id, !.body = b]]
                 /\ resp' = NoResp
    /\ CoreIdle /\ UNCHANGED <<uploads, walk>>

CreateNotification(p) ==
    CreateForUser(p, "create_notification", CreateBodies("create_notification"))

CreateOrder(p) == CreateForUser(p, "create_order", CreateBodies("create_order"))

\* get_review, get_inquiry, get_transaction, get_notification, get_order
GetDoc(p, op) ==
    /\ procs[p].pc = "idle"
    /\ \E id \in DocIds \cup {BadId} :
         resp' = DocReply(op, id, IF ~IsValidId(id) THEN 400
                                  ELSE IF DocExists(CollOf(op), id) THEN 200 ELSE 404)
    /\ UNCHANGED procs /\ CoreIdle /\ UNCHANGED others

GetReview(p) == GetDoc(p, "get_review")

GetInquiry(p) == GetDoc(p, "get_inquiry")

GetTransaction(p) == GetDoc(p, "get_transaction")

GetNotification(p) == GetDoc(p, "get_notification")

GetOrder(p) == GetDoc(p, "get_order")

\* delete_review, delete_inquiry, delete_transaction, delete_notification:
\* delete_one by _id; deleted_count 0 is 404
DeleteDoc(p, op) ==
    /\ procs[p].pc = "idle"
    /\ \E id \in DocIds \cup {BadId} :
         /\ resp' = DocReply(op, id, IF ~IsValidId(id) THEN 400
                                     ELSE IF DocExists(CollOf(op), id) THEN 204 ELSE 404)
         /\ db' = [db EXCEPT ![CollOf(op)] = {d \in @ : d.id # id}]
    /\ UNCHANGED procs /\ CoreIdle /\ UNCHANGED <<seq, uploads, walk>>

DeleteReview(p) == DeleteDoc(p, "delete_review")

DeleteInquiry(p) == DeleteDoc(p, "delete_inquiry")

DeleteTransaction(p) == DeleteDoc(p, "delete_transaction")

DeleteNotification(p) == DeleteDoc(p, "delete_notification")

\* the fields of ReviewUpdate, NotificationUpdate, OrderUpdate
UpdateFields(op) ==
    CASE op = "update_review" -> {"rating", "comment"}
      [] op = "update_notification" -> {"read", "action_text"}
      [] op = "update_order" -> {"status"}

\* update_review, update_notification, update_order: the checks, then
\* update_one; matched_count 0 is 404
UpdateDocFrom(p, op, bodies) ==
    /\ procs[p].pc = "idle"
    /\ \E id \in DocIds \cup {BadId}, data \in bodies :
         IF ~IsValidId(id) \/ DOMAIN data = {} \/ ~DocExists(CollOf(op), id)
         THEN /\ resp' = [DocReply(op, id,
                              IF ~IsValidId(id) \/ DOMAIN data = {} THEN 400 ELSE 404)
                            EXCEPT !.body = data]
              /\ UNCHANGED <<procs, db>>
         ELSE /\ db' = [db EXCEPT ![CollOf(op)] =
                          {IF d.id = id THEN SetOf(d, data) ELSE d : d \in @}]
              /\ procs' = [procs EXCEPT ![p] =
                    [IdleProc EXCEPT !.pc = "d_fetch", !.op = op, !.doc = id,
                                     !.body = data]]
              /\ resp' = NoResp
    /\ CoreIdle /\ UNCHANGED <<seq, uploads, walk>>

UpdateDoc(p, op) == UpdateDocFrom(p, op, UpdateBodies(UpdateFields(op), Vals))

\* request bodies over every subset of the fields, with one value
OneValueBodies(op) == UpdateBodies(UpdateFields(op), {2})

UpdateReview(p) == UpdateDoc(p, "update_review")

UpdateNotification(p) == UpdateDoc(p, "update_notification")

UpdateOrder(p) == UpdateDoc(p, "update_order")

\* the find_one after update_one; None is subscripted (500)
DocUpdateFetch(p) ==
    /\ procs[p].pc = "d_fetch"
    /\ Finish(p, IF DocExists(CollOf(procs[p].op), procs[p].doc) THEN 200 ELSE 500)
    /\ CoreIdle /\ UNCHANGED others

----------------------------------------------------------------------------
(* /api/upload *)

ALLOWED_EXTENSIONS == {".jpg", ".jpeg", ".png", ".gif", ".webp"}

MAX_SIZE_MB == 10

\* MAX_SIZE_MB * 1024 * 1024
MaxBytes == MAX_SIZE_MB * 1024 * 1024

\* Path(filename).suffix of the uploaded file; "" for no filename or no suffix
Suffixes == ALLOWED_EXTENSIONS \cup {".JPG", ".txt", ""}

\* suffix.lower()
Lower(sfx) == IF sfx = ".JPG" THEN ".jpg" ELSE sfx

\* _allowed_file
AllowedFile(sfx) == Lower(sfx) \in ALLOWED_EXTENSIONS

\* len(contents)
Sizes == {0, MaxBytes, MaxBytes + 1}

\* f"/uploads/{unique_name}"
UrlOf(name, ext) == <<"/uploads/", name, ext>>

UploadReply(name, sfx, size, st) ==
    [NoResp EXCEPT !.op = "upload_image", !.fid = name, !.status = st,
                   !.body = [suffix |-> sfx, size |-> size]]

\* upload_image: the extension check and the uuid4 name, up to file.read()
UploadImage(p) ==
    /\ procs[p].pc = "idle"
    /\ \E sfx \in Suffixes, size \in Sizes :
         IF ~AllowedFile(sfx)
         THEN /\ resp' = UploadReply(0, sfx, size, 400)
              /\ UNCHANGED <<procs, seq>>
         ELSE /\ seq["uploads"] < MaxUploads
              /\ seq' = [seq EXCEPT !["uploads"] = @ + 1]
              /\ procs' = [procs EXCEPT ![p] =
                    [IdleProc EXCEPT !.pc = "up_read", !.op = "upload_image",
                                     !.doc = seq["uploads"] + 1,
                                     !.body = [suffix |-> sfx, size |-> size]]]
              /\ resp' = NoResp
    /\ CoreIdle /\ UNCHANGED <<db, uploads, walk>>

\* upload_image after file.read(): the size check raises HTTPException(400)
\* inside the try block, "except Exception" catches it and raises 500; the
\* write may fail, and then the file is removed
UploadWrite(p) ==
    /\ procs[p].pc = "up_read"
    /\ LET name == procs[p].doc
           sfx == procs[p].body.suffix
           size == procs[p].body.size
       IN IF size > MaxBytes
          THEN /\ resp' = UploadReply(name, sfx, size, 500)
               /\ UNCHANGED uploads
          ELSE \E written \in BOOLEAN :
                 IF written
                 THEN /\ uploads' = uploads \cup
                                       {[name |-> name, ext |-> Lower(sfx), size |-> size]}
                      /\ resp' = [UploadReply(name, sfx, size, 200) EXCEPT
                                    !.ret = [url |-> UrlOf(name, Lower(sfx))]]
                 ELSE /\ resp' = UploadReply(name, sfx, size, 500)
                      /\ UNCHANGED uploads
    /\ procs' = [procs EXCEPT ![p] = IdleProc]
    /\ CoreIdle /\ UNCHANGED <<db, seq, walk>>

----------------------------------------------------------------------------
(* /api/filter-screen *)

\* price and area_sqft of a property; 0 is a value a client may store
FilterValues == 0..NPrices

\* the fields of a document of db.properties the facet query reads
FilterFields == [transaction_type : TxTypes, price : FilterValues, area_sqft : FilterValues]

MinOf(S) == CHOOSE x \in S : \A y \in S : x <= y

MaxOf(S) == CHOOSE x \in S : \A y \in S : x >= y

\* the "price_range" facet: $group with $min and $max over the matched
\* documents; no document, no group
PriceRangeFacet(M) ==
    IF M = {} THEN <<>>
    ELSE <<[min |-> MinOf({d.price : d \in M}), max |-> MaxOf({d.price : d \in M})]>>

\* the "area_range" facet: the same over the documents with area_sqft > 0
AreaRangeFacet(M) ==
    LET A == {d.area_sqft : d \in {x \in M : x.area_sqft > 0}}
    IN IF A = {} THEN <<>> ELSE <<[min |-> MinOf(A), max |-> MaxOf(A)]>>

\* pr / ar: the first group or {min 0, max 0}, replaced by the default when
\* max < min or both are 0
RangeOrDefault(facet, default) ==
    LET r == IF facet # <<>> THEN facet[1] ELSE [min |-> 0, max |-> 0]
    IN IF r.max < r.min \/ (r.min = 0 /\ r.max = 0) THEN default ELSE r

DefaultPriceRange == [min |-> 0, max |-> 100]

DefaultAreaRange == [min |-> 0, max |-> 5000]

\* _empty_filter_response(): the lists read from the collection are empty and
\* the ranges are the defaults
EmptyFilterResponse ==
    [transaction_types |-> {}, price_range |-> DefaultPriceRange,
     area_range |-> DefaultAreaRange]

\* the payload get_filter_screen_options builds from the one document $facet
\* returns
FilterPayload(M) ==
    [transaction_types |-> {d.transaction_type : d \in M},
     price_range |-> RangeOrDefault(PriceRangeFacet(M), DefaultPriceRange),
     area_range |-> RangeOrDefault(AreaRangeFacet(M), DefaultAreaRange)]

\* get_filter_screen_options
GetFilterScreenOptions(p) ==
    /\ procs[p].pc = "idle"
    /\ \E tx \in TxTypes \cup {Absent} :
         resp' = [NoResp EXCEPT !.op = "get_filter_screen_options", !.status = 200,
                                !.body = [transaction_type |-> tx],
                                !.ret = FilterPayload(Matching(properties, tx))]
    /\ UNCHANGED procs /\ CoreIdle /\ UNCHANGED others

----------------------------------------------------------------------------
(* GET /api/favorites/user/{user_id}/shortlist *)

\* find(...).sort("created_at", -1): the orders the server may return the
\* selected documents in; the order among equal created_at is not specified
NewestFirst(S) ==
    {o \in [1..Cardinality(S) -> S] :
        /\ \A i, j \in 1..Cardinality(S) : i # j => o[i] # o[j]
        /\ \A i, j \in 1..Cardinality(S) : i < j => o[i].created_at >= o[j].created_at}

\* {"_id": {"$in": property_ids}} and the optional transaction_type
ShortlistQuery(ids, tx) ==
    {d \in Matching(properties, tx) : \E i \in 1..Len(ids) : ids[i] = d.id}

\* properties.sort(key=lambda p: id_order.get(p["_id"], 999999)) of one page
SortByIdOrder(ids, items) ==
    SelectSeq(ids, LAMBDA x : \E i \in 1..Len(items) : items[i] = x)

\* the client reads page 1, or the page after the last one it read
ShortlistContinues(uid, tx, limit) ==
    /\ walk.user_id = uid
    /\ WalkContinues(tx, limit)

\* get_user_shortlist: the user id check and favorites.find(...).to_list
GetUserShortlist(p) ==
    /\ procs[p].pc = "idle"
    /\ \E uid \in UserIds \cup {BadId}, tx \in TxTypes \cup {Absent},
          limit \in 1..MaxLimit, first \in BOOLEAN :
         /\ ~first => ShortlistContinues(uid, tx, limit)
         /\ IF uid = BadId
            THEN /\ resp' = CrudReply("get_user_shortlist", uid, 0, 400)
                 /\ UNCHANGED <<procs, walk>>
            ELSE \E o \in NewestFirst({f \in favorites : f.user_id = uid}) :
                   LET ids == [i \in 1..Len(o) |-> o[i].property_id]
                       page == IF first THEN 1 ELSE walk.next
                   IN IF ids = <<>>
                      THEN /\ resp' = CrudReply("get_user_shortlist", uid, 0, 200)
                           /\ walk' = IF first
                                      THEN [transaction_type |-> tx, limit |-> limit,
                                            next |-> 2, got |-> <<>>, total |-> 0,
                                            total_pages |-> 0, coll |-> properties,
                                            same |-> TRUE, user_id |-> uid,
                                            favs |-> favorites]
                                      ELSE [walk EXCEPT !.next = @ + 1, !.total = 0,
                                              !.total_pages = 0,
                                              !.same = @ /\ properties = walk.coll
                                                         /\ favorites = walk.favs]
                           /\ UNCHANGED procs
                      ELSE /\ procs' = [procs EXCEPT ![p] =
                                 [IdleProc EXCEPT !.pc = "s_count",
                                                  !.op = "get_user_shortlist",
                                                  !.uid = uid,
                                                  !.body = [transaction_type |-> tx,
                                                            limit |-> limit, page |-> page,
                                                            ids |-> ids, total |-> 0]]]
                           /\ resp' = NoResp
                           /\ UNCHANGED walk
    /\ UNCHANGED <<users, user_seq>> /\ UNCHANGED listings /\ AuthIdle
    /\ UNCHANGED <<db, seq, uploads>>

\* get_user_shortlist: properties.count_documents(query)
ShortlistCount(p) ==
    /\ procs[p].pc = "s_count"
    /\ LET b == procs[p].body
       IN procs' = [procs EXCEPT ![p].pc = "s_find",
                      ![p].body.total =
                          Cardinality(ShortlistQuery(b.ids, b.transaction_type))]
    /\ resp' = NoResp
    /\ UNCHANGED <<users, user_seq, walk>> /\ UNCHANGED listings /\ AuthIdle
    /\ UNCHANGED <<db, seq, uploads>>

\* get_user_shortlist: find(query).sort("posted_at", -1).skip(skip).limit(limit),
\* the page put in the order of property_ids, and the pagination metadata
ShortlistFind(p) ==
    /\ procs[p].pc = "s_find"
    /\ LET b == procs[p].body
           tp == TotalPages(b.total, b.limit)
       IN \E o \in SortedOrders(ShortlistQuery(b.ids, b.transaction_type)) :
            LET items == SortByIdOrder(b.ids, PageOf(o, (b.page - 1) * b.limit, b.limit))
            IN walk' = IF b.page = 1
                       THEN [transaction_type |-> b.transaction_type, limit |-> b.limit,
                             next |-> 2, got |-> items, total |-> b.total,
                             total_pages |-> tp, coll |-> properties, same |-> TRUE,
                             user_id |-> procs[p].uid, favs |-> favorites]
                       ELSE [walk EXCEPT !.next = @ + 1, !.got = @ \o items,
                                         !.total = b.total, !.total_pages = tp,
                                         !.same = @ /\ properties = walk.coll
                                                    /\ favorites = walk.favs]
    /\ Finish(p, 200)
    /\ UNCHANGED <<users, user_seq>> /\ UNCHANGED listings /\ AuthIdle
    /\ UNCHANGED <<db, seq, uploads>>

----------------------------------------------------------------------------
(* GET /api/users/agents/search *)

\* a string field a user document does not have, or a query parameter that is
\* not given
NoPlace == 0

\* {"$regex": pattern, "$options": "i"} on one field: the field is present and
\* contains the pattern, whatever the case of the letters (a place name in
\* lower case is its number, in upper case the negative of it)
FoldCase(s) == IF s < 0 THEN 0 - s ELSE s

RegexMatch(value, pattern) == value # NoPlace /\ FoldCase(value) = FoldCase(pattern)

\* {"user_type": "agent"} or {"is_real_estate_agent": True}
IsAgent(u) == u.user_type = "agent" \/ u.is_real_estate_agent

\* the city filter: city, address, location.city or dealing_in
CityQuery(u, city) == RegexMatch(u.city, city)

\* location_query: address, locality, location.locality, city or dealing_in
LocationQuery(u, location) == RegexMatch(u.locality, location) \/ RegexMatch(u.city, location)

\* the query document search_agents builds: the city filter is appended to
\* the list of "$or"; location_query goes into "$and" with the first two
\* alternatives when the list has more than two, and otherwise replaces "$or"
AgentsQuery(u, city, location) ==
    IF city # NoPlace /\ location # NoPlace
    THEN /\ (IsAgent(u) \/ CityQuery(u, city))
         /\ IsAgent(u)
         /\ LocationQuery(u, location)
    ELSE IF city # NoPlace
    THEN IsAgent(u) \/ CityQuery(u, city)
    ELSE IF location # NoPlace
    THEN LocationQuery(u, location)
    ELSE IsAgent(u)

\* search_agents: users.count_documents(query)
SearchAgents(p) ==
    /\ procs[p].pc = "idle"
    /\ \E city \in {NoPlace, 1, UpperCase(1)}, location \in {NoPlace, 1},
          page \in 1..2, limit \in 1..MaxLimit :
         procs' = [procs EXCEPT ![p] =
            [IdleProc EXCEPT !.pc = "a_find", !.op = "search_agents",
                             !.body = [city |-> city, location |-> location,
                                       page |-> page, limit |-> limit,
                                       total |-> Cardinality({u \in users :
                                                    AgentsQuery(u, city, location)})]]]
    /\ resp' = NoResp
    /\ UNCHANGED <<users, user_seq>> /\ UNCHANGED listings /\ AuthIdle
    /\ UNCHANGED others

\* search_agents: find(query).skip(skip).limit(limit).sort("created_at", -1)
\* and the response
AgentsFind(p) ==
    /\ procs[p].pc = "a_find"
    /\ LET b == procs[p].body
       IN \E o \in NewestFirst({u \in users : AgentsQuery(u, b.city, b.location)}) :
            /\ resp' = [ReplyOf(p, 200) EXCEPT
                          !.ret = [agents |-> PageOf(o, (b.page - 1) * b.limit, b.limit),
                                   total |-> b.total,
                                   total_pages |-> TotalPages(b.total, b.limit)]]
            /\ procs' = [procs EXCEPT ![p] = IdleProc]
    /\ UNCHANGED <<users, user_seq>> /\ UNCHANGED listings /\ AuthIdle
    /\ UNCHANGED others

----------------------------------------------------------------------------
(* PUT /api/inquiries/{inquiry_id} *)

\* the status strings: "pending", "responded", "closed", "completed"
Pending == 1
Responded == 2
Closed == 3
Completed == 4

\* InquiryUpdate.status: Optional[str], any string
StatusStrings == {Pending, Responded, Closed, Completed}

\* update_data, with completed_at when the status becomes "completed"
InquiryUpdateData(data) ==
    IF "status" \in DOMAIN data /\ data.status = Completed
    THEN [k \in DOMAIN data \cup {"completed_at"} |->
            IF k = "completed_at" THEN now ELSE data[k]]
    ELSE data

\* update_inquiry: the checks, then inquiries.update_one; matched_count 0 is 404
UpdateInquiry(p) ==
    /\ procs[p].pc = "idle"
    /\ \E id \in DocIds \cup {BadId},
          data \in UNION {[F -> StatusStrings] : F \in SUBSET {"message", "status"}} :
         IF ~IsValidId(id) \/ DOMAIN data = {} \/ ~DocExists("inquiries", id)
         THEN /\ resp' = [DocReply("update_inquiry", id,
                              IF ~IsValidId(id) \/ DOMAIN data = {} THEN 400 ELSE 404)
                            EXCEPT !.body = data]
              /\ UNCHANGED <<procs, db>>
         ELSE /\ db' = [db EXCEPT !["inquiries"] =
                          {IF d.id = id THEN SetOf(d, InquiryUpdateData(data)) ELSE d : d \in @}]
              /\ procs' = [procs EXCEPT ![p] =
                    [IdleProc EXCEPT !.pc = "d_fetch", !.op = "update_inquiry",
                                     !.doc = id, !.body = data]]
              /\ resp' = NoResp
    /\ CoreIdle /\ UNCHANGED <<seq, uploads, walk>>

----------------------------------------------------------------------------
(* POST /api/notifications/user/{user_id}/mark-all-read and *)
(* GET /api/notifications/user/{user_id}/unread-count       *)

\* the values of the read field: False (the default of NotificationBase),
\* True, and None, which NotificationUpdate.read accepts
ReadNull == 0
ReadFalse == 1
ReadTrue == 2

\* variant: the filter leaves out the user
AnyoneUnread(uid, d) == d.read = ReadFalse

\* {"user_id": ObjectId(user_id), "read": False}
UnreadFilter(uid, d) == d.user_id = ObjectIdOf(uid) /\ d.read = ReadFalse

\* mark_all_read: update_many(filter, {"$set": {"read": True}}) and its
\* modified_count
MarkAllRead(p) ==
    /\ procs[p].pc = "idle"
    /\ \E uid \in UserIds \cup {BadId} :
         IF ~IsValidId(uid)
         THEN /\ resp' = CrudReply("mark_all_read", uid, 0, 400)
              /\ UNCHANGED db
         ELSE /\ db' = [db EXCEPT !["notifications"] =
                          {IF UnreadFilter(uid, d) THEN SetOf(d, [read |-> ReadTrue]) ELSE d
                             : d \in @}]
              /\ resp' = [CrudReply("mark_all_read", uid, 0, 200) EXCEPT
                            !.ret = [modified_count |->
                                       Cardinality({d \in db["notifications"] :
                                                       UnreadFilter(uid, d)})]]
    /\ UNCHANGED procs /\ CoreIdle /\ UNCHANGED <<seq, uploads, walk>>

\* get_unread_count: count_documents(filter)
GetUnreadCount(p) ==
    /\ procs[p].pc = "idle"
    /\ \E uid \in UserIds \cup {BadId} :
         resp' = IF ~IsValidId(uid)
                 THEN CrudReply("get_unread_count", uid, 0, 400)
                 ELSE [CrudReply("get_unread_count", uid, 0, 200) EXCEPT
                         !.ret = [unread_count |->
                                    Cardinality({d \in db["notifications"] :
                                                    UnreadFilter(uid, d)})]]
    /\ UNCHANGED procs /\ CoreIdle /\ UNCHANGED others

----------------------------------------------------------------------------
(* /api/subscription-plans *)

\* the ids of SUBSCRIPTION_PLANS, in their order
SUBSCRIPTION_PLANS == <<"metal", "bronze", "silver", "gold", "platinum">>

\* variant: the spin reward grants another plan
SpinRewardGold == "gold"

SPIN_REWARD_PLAN_ID == "platinum"

\* a user document without the subscription_plan_id field, or with None
NoField == "<absent>"

\* the strings update_user can store in subscription_plan_id
\* (UserUpdate.subscription_plan_id: Optional[str])
PlanStrings == {"", "  ", "gold", "Platinum ", "diamond"}

\* s.strip().lower()
StripLower(s) ==
    CASE s = "Platinum " -> "platinum"
      [] s = "  " -> ""
      [] OTHER -> s

\* the truth value of a stored or computed string
Truthy(s) == s \notin {NoField, ""}

\* get_subscription_plans: current_plan_id from the user document, "metal"
\* without a user or without a value
CurrentPlanId(uid) ==
    IF uid # 0 /\ UserExists(ObjectIdOf(uid))
          /\ Truthy((CHOOSE u \in users : u.id = ObjectIdOf(uid)).subscription_plan_id)
    THEN StripLower((CHOOSE u \in users : u.id = ObjectIdOf(uid)).subscription_plan_id)
    ELSE "metal"

\* _get_plans_with_current
PlansWithCurrent(current_plan_id) ==
    LET c == StripLower(IF Truthy(current_plan_id) THEN current_plan_id ELSE "metal")
        current == IF \E i \in DOMAIN SUBSCRIPTION_PLANS : SUBSCRIPTION_PLANS[i] = c
                   THEN c ELSE "metal"
    IN [i \in DOMAIN SUBSCRIPTION_PLANS |->
          [id |-> SUBSCRIPTION_PLANS[i],
           is_current |-> SUBSCRIPTION_PLANS[i] = current,
           button_label |-> IF SUBSCRIPTION_PLANS[i] = current
                            THEN "Active Plan" ELSE "Downgrade"]]

\* get_subscription_plans; the answer to a request without user_id has uid 0
GetSubscriptionPlans(p) ==
    /\ procs[p].pc = "idle"
    /\ \E uid \in UserIds \cup {BadId, Absent, UpperCase(2)} :
         resp' = IF uid = BadId
                 THEN CrudReply("get_subscription_plans", uid, 0, 400)
                 ELSE LET given == IF uid = Absent THEN 0 ELSE uid
                      IN [CrudReply("get_subscription_plans", given, 0, 200) EXCEPT
                            !.ret = [plans |-> PlansWithCurrent(CurrentPlanId(given)),
                                     current_plan_id |-> CurrentPlanId(given)]]
    /\ UNCHANGED procs /\ CoreIdle /\ UNCHANGED others

\* activate_spin_reward: users.update_one by _id; matched_count 0 is 404
ActivateSpinReward(p) ==
    /\ procs[p].pc = "idle"
    /\ \E uid \in UserIds \cup {BadId, UpperCase(2)} :
         IF ~IsValidId(uid)
         THEN /\ resp' = CrudReply("activate_spin_reward", uid, 0, 400)
              /\ UNCHANGED users
         ELSE /\ users' = {IF u.id = ObjectIdOf(uid)
                           THEN SetOf(u, [subscription_plan_id |-> SPIN_REWARD_PLAN_ID])
                           ELSE u : u \in users}
              /\ resp' = CrudReply("activate_spin_reward", uid, 0,
                                   IF UserExists(ObjectIdOf(uid)) THEN 200 ELSE 404)
    /\ UNCHANGED <<procs, user_seq>> /\ UNCHANGED listings /\ AuthIdle /\ UNCHANGED others

\* update_user with a body that carries subscription_plan_id only: the
\* checks, then users.update_one; matched_count 0 is 404
UpdateUserPlan(p) ==
    /\ procs[p].pc = "idle"
    /\ \E uid \in UserIds \cup {BadId}, s \in PlanStrings :
         IF ~IsValidId(uid) \/ ~UserExists(uid)
         THEN /\ resp' = [CrudReply("update_user", uid, 0,
                                    IF ~IsValidId(uid) THEN 400 ELSE 404)
                            EXCEPT !.body = [subscription_plan_id |-> s]]
              /\ UNCHANGED <<procs, users>>
         ELSE /\ users' = {IF u.id = uid THEN SetOf(u, [subscription_plan_id |-> s])
                           ELSE u : u \in users}
              /\ procs' = [procs EXCEPT ![p] =
                    [IdleProc EXCEPT !.pc = "uu_fetch", !.op = "update_user",
                                     !.uid = uid, !.body = [subscription_plan_id |-> s]]]
              /\ resp' = NoResp
    /\ UNCHANGED user_seq /\ UNCHANGED listings /\ AuthIdle /\ UNCHANGED others

----------------------------------------------------------------------------

AuthStep(p) ==
    \/ RequestOtp(p)
    \/ LoginRequestOtp(p)
    \/ SendOtp(p)
    \/ SendSms(p)
    \/ StoreOtpInDb(p)
    \/ VerifyOtp(p)
    \/ LoginVerifyOtp(p)
    \/ VerifyDelete(p)
    \/ VerifyInc(p)
    \/ VerifySet(p)
    \/ VerifyMem(p)
    \/ LoginFindUser(p)
    \/ ClearOtpFromDb(p)
    \/ ClearOtp(p)
    \/ Signup(p)
    \/ SignupCheckMem(p)
    \/ SignupFindUser(p)
    \/ SignupFindEmail(p)
    \/ SignupInsert(p)

\* one request at a time, with time passing
NextAuth == AuthStep(1) \/ Tick \/ TtlDelete

SpecAuth == Init /\ [][NextAuth]_vars

\* request-otp and verify-otp requests of several clients, interleaved at
\* their awaits
OtpStep(p) ==
    \/ RequestOtp(p)
    \/ SendOtp(p)
    \/ SendSms(p)
    \/ StoreOtpInDb(p)
    \/ VerifyOtp(p)
    \/ VerifyDelete(p)
    \/ VerifyInc(p)
    \/ VerifySet(p)
    \/ VerifyMem(p)

NextAuthConc == \E p \in Procs : OtpStep(p)

SpecAuthConc == Init /\ [][NextAuthConc]_vars

UserStep(p) ==
    \/ CreateUser(p)
    \/ UserInsert(p)
    \/ UserFetch(p)
    \/ UpdateStartFrom(p, "update_user", UserIds \cup {BadId}, AllEmails \cup {Absent},
                       Phones \cup {Absent}, {FALSE})
    \/ UpdateStartFrom(p, "update_profile", UserIds \cup {BadId}, AllEmails \cup {Absent},
                       Phones \cup {Absent}, {FALSE})
    \/ UserUpdate(p)
    \/ UserUpdateFetch(p)

FavoriteStep(p) ==
    \/ CreateUser(p)
    \/ UserInsert(p)
    \/ UserFetch(p)
    \/ DeleteUser(p)
    \/ CreatePlainProperty(p)
    \/ PropFetch(p)
    \/ DeleteProperty(p)
    \/ CreateFavorite(p)
    \/ FavFindUser(p)
    \/ FavFindExisting(p)
    \/ FavInsert(p)
    \/ FavFetch(p)
    \/ DeleteFavorite(p)

\* favorites requests one at a time
NextFavSeq == FavoriteStep(1)

SpecFavSeq == Init /\ [][NextFavSeq]_vars

CreateFavoriteStep(p) ==
    \/ CreateFavorite(p)
    \/ FavFindUser(p)
    \/ FavFindExisting(p)
    \/ FavInsert(p)
    \/ FavFetch(p)

\* POST /api/favorites of several clients, interleaved at their awaits, over
\* users and properties created one request at a time
NextFav ==
    \/ CreateUser(1) \/ UserInsert(1) \/ UserFetch(1)
    \/ CreatePlainProperty(1) \/ PropFetch(1)
    \/ \E p \in Procs : CreateFavoriteStep(p)

SpecFav == Init /\ [][NextFav]_vars

SignupStep(p) ==
    \/ OtpStep(p)
    \/ Signup(p)
    \/ SignupCheckMem(p)
    \/ SignupFindUser(p)
    \/ SignupFindEmail(p)
    \/ SignupInsert(p)
    \/ ClearOtpFromDb(p)
    \/ ClearOtp(p)

\* the handlers that write user documents: signup with its OTP exchange, and
\* create_user, update_user and update_profile, one request at a time
NextUsers == SignupStep(1) \/ UserStep(1)

SpecUsers == Init /\ [][NextUsers]_vars

\* fewer than MaxCreated documents have been created in all collections
CreatedLeft ==
    user_seq + prop_seq + fav_seq + seq["reviews"] + seq["inquiries"]
        + seq["transactions"] + seq["notifications"] + seq["orders"] < MaxCreated

\* every entity with a DELETE handler created, read and deleted, one request
\* at a time, with one body per create handler
NextDelete ==
    \/ /\ CreatedLeft
       /\ \/ CreatePlainUser(1)
          \/ CreatePropertyFrom(1, {1}, {PlainBody})
          \/ CreateFavorite(1)
          \/ CreateWithRefs(1, "create_review", PlainBodies("create_review"))
          \/ CreateWithRefs(1, "create_inquiry", PlainBodies("create_inquiry"))
          \/ CreateWithRefs(1, "create_transaction", PlainBodies("create_transaction"))
          \/ CreateForUser(1, "create_notification", PlainBodies("create_notification"))
    \/ UserInsert(1) \/ UserFetch(1) \/ PropFetch(1)
    \/ FavFindUser(1) \/ FavFindExisting(1) \/ FavInsert(1) \/ FavFetch(1)
    \/ RefFindUser(1) \/ RefFindSeller(1) \/ DocInsert(1) \/ DocFetch(1)
    \/ GetUser(1) \/ DeleteUser(1)
    \/ GetProperty(1) \/ DeleteProperty(1)
    \/ GetFavorite(1) \/ DeleteFavorite(1) \/ RemoveFavoriteByProperty(1)
    \/ GetReview(1) \/ GetInquiry(1) \/ GetTransaction(1) \/ GetNotification(1)
    \/ DeleteReview(1) \/ DeleteInquiry(1) \/ DeleteTransaction(1)
    \/ DeleteNotification(1)

SpecDelete == Init /\ [][NextDelete]_vars

\* the PUT / PATCH handlers of properties, users, reviews, notifications and
\* orders over documents created with one body per create handler, one request
\* at a time; a request carries any subset of the fields, with one new value
NextUpdate ==
    \/ /\ CreatedLeft
       /\ \/ CreatePlainUser(1)
          \/ CreatePropertyFrom(1, {1}, {PlainBody})
          \/ CreateWithRefs(1, "create_review", PlainBodies("create_review"))
          \/ CreateForUser(1, "create_notification", PlainBodies("create_notification"))
          \/ CreateForUser(1, "create_order", PlainBodies("create_order"))
    \/ UserInsert(1) \/ UserFetch(1) \/ PropFetch(1)
    \/ RefFindUser(1) \/ DocInsert(1) \/ DocFetch(1)
    \/ UpdatePropertyFrom(1, UpdateBodies({"transaction_type", "price"}, {2}))
    \/ PropUpdateFetch(1)
    \/ UpdateStartFrom(1, "update_user", UserIds \cup {BadId}, {2, Absent},
                       Phones \cup {Absent}, {FALSE})
    \/ UpdateStartFrom(1, "update_profile", {1}, {Absent}, {2, Absent}, BOOLEAN)
    \/ UserUpdate(1) \/ UserUpdateFetch(1)
    \/ UpdateDocFrom(1, "update_review", OneValueBodies("update_review"))
    \/ UpdateDocFrom(1, "update_notification", OneValueBodies("update_notification"))
    \/ UpdateDocFrom(1, "update_order", OneValueBodies("update_order"))
    \/ DocUpdateFetch(1)

SpecUpdate == Init /\ [][NextUpdate]_vars

\* every create handler that takes an identifier in its body, delete_user and
\* delete_property, and the GET handlers of the documents that reference a user
\* or a property, one request at a time
NextRefs ==
    \/ /\ CreatedLeft
       /\ \/ CreatePlainUser(1)
          \/ CreatePlainProperty(1)
          \/ CreateFavorite(1)
          \/ CreateWithRefs(1, "create_review", PlainBodies("create_review"))
          \/ CreateWithRefs(1, "create_inquiry", PlainBodies("create_inquiry"))
          \/ CreateWithRefs(1, "create_transaction", PlainBodies("create_transaction"))
          \/ CreateForUser(1, "create_notification", PlainBodies("create_notification"))
          \/ CreateForUser(1, "create_order", PlainBodies("create_order"))
    \/ UserInsert(1) \/ UserFetch(1) \/ PropFetch(1)
    \/ FavFindUser(1) \/ FavFindExisting(1) \/ FavInsert(1) \/ FavFetch(1)
    \/ RefFindUser(1) \/ RefFindSeller(1) \/ DocInsert(1) \/ DocFetch(1)
    \/ DeleteUser(1) \/ DeleteProperty(1)
    \/ GetFavorite(1) \/ GetReview(1) \/ GetInquiry(1) \/ GetTransaction(1)
    \/ GetNotification(1) \/ GetOrder(1)

SpecRefs == Init /\ [][NextRefs]_vars

\* the create handlers that check references, running while another client
\* deletes users and properties
NextRace ==
    \/ /\ CreatedLeft
       /\ \/ CreatePlainUser(1)
          \/ CreatePlainProperty(1)
          \/ CreateFavorite(1)
          \/ CreateWithRefs(1, "create_review", PlainBodies("create_review"))
          \/ CreateWithRefs(1, "create_inquiry", PlainBodies("create_inquiry"))
          \/ CreateWithRefs(1, "create_transaction", PlainBodies("create_transaction"))
    \/ UserInsert(1) \/ UserFetch(1) \/ PropFetch(1)
    \/ FavFindUser(1) \/ FavFindExisting(1) \/ FavInsert(1) \/ FavFetch(1)
    \/ RefFindUser(1) \/ RefFindSeller(1) \/ DocInsert(1) \/ DocFetch(1)
    \/ DeleteUser(2) \/ DeleteProperty(2)

SpecRace == Init /\ [][NextRace]_vars

\* clients uploading images
NextUpload == \E p \in Procs : UploadImage(p) \/ UploadWrite(p)

SpecUpload == Init /\ [][NextUpload]_vars

\* db.properties holds any collection of documents with a price and an area
InitFilter ==
    /\ now = 0
    /\ otp_storage = Empty
    /\ otps = Empty
    /\ users = {}
    /\ user_seq = 0
    /\ sms_out = NoSms
    /\ procs = [p \in Procs |-> IdleProc]
    /\ resp = NoResp
    /\ hist = [ph \in Phones |-> NoHist]
    /\ \E D \in SUBSET PropIds : \E f \in [D -> FilterFields] :
         properties = {[id |-> i, transaction_type |-> f[i].transaction_type,
                        price |-> f[i].price, area_sqft |-> f[i].area_sqft] : i \in D}
    /\ prop_seq = MaxPropIds
    /\ favorites = {}
    /\ fav_seq = 0
    /\ db = [c \in Collections |-> {}]
    /\ seq = [c \in Collections \cup {"uploads"} |-> 0]
    /\ uploads = {}
    /\ walk = NoWalk

\* the filter screen read over any collection of properties
NextFilter == GetFilterScreenOptions(1)

SpecFilter == InitFilter /\ [][NextFilter]_vars

\* the pairs of user and property that have a favorite at the start, and the
\* _id of the favorite of a pair
ShortlistPairs == {pr \in UserIds \X PropIds : (pr[1] - 1) * MaxPropIds + pr[2] <= MaxFavIds}

\* db.properties and db.favorites hold any documents with their timestamps;
\* a favorite may refer to a property that was deleted
InitShortlist ==
    /\ now = 0
    /\ otp_storage = Empty
    /\ otps = Empty
    /\ users = {}
    /\ user_seq = 0
    /\ sms_out = NoSms
    /\ procs = [p \in Procs |-> IdleProc]
    /\ resp = NoResp
    /\ hist = [ph \in Phones |-> NoHist]
    /\ \E D \in SUBSET PropIds : \E f \in [D -> [transaction_type : TxTypes, posted_at : 0..1]] :
         properties = {[id |-> i, transaction_type |-> f[i].transaction_type,
                        posted_at |-> f[i].posted_at] : i \in D}
    /\ prop_seq = MaxPropIds
    /\ \E F \in SUBSET ShortlistPairs : \E c \in [F -> 0..1] :
         favorites = {[id |-> (pr[1] - 1) * MaxPropIds + pr[2], user_id |-> pr[1],
                       property_id |-> pr[2], created_at |-> c[pr]] : pr \in F}
    /\ fav_seq = MaxFavIds
    /\ db = [c \in Collections |-> {}]
    /\ seq = [c \in Collections \cup {"uploads"} |-> 0]
    /\ uploads = {}
    /\ walk = NoWalk

\* a client reading shortlists page by page, one request at a time
NextShortlist ==
    \/ GetUserShortlist(1)
    \/ ShortlistCount(1)
    \/ ShortlistFind(1)

SpecShortlist == InitShortlist /\ [][NextShortlist]_vars

\* what a stored user document says about being an agent and about places
AgentFields == [user_type : {"agent", "buyer"}, is_real_estate_agent : BOOLEAN,
                city : {NoPlace, 1, 2}, locality : {NoPlace, 1}, created_at : 0..1]

\* db.users holds any collection of users
InitAgents ==
    /\ now = 0
    /\ otp_storage = Empty
    /\ otps = Empty
    /\ \E D \in SUBSET UserIds : \E f \in [D -> AgentFields] :
         users = {[id |-> i, user_type |-> f[i].user_type,
                   is_real_estate_agent |-> f[i].is_real_estate_agent,
                   city |-> f[i].city, locality |-> f[i].locality,
                   created_at |-> f[i].created_at] : i \in D}
    /\ user_seq = MaxUserIds
    /\ sms_out = NoSms
    /\ procs = [p \in Procs |-> IdleProc]
    /\ resp = NoResp
    /\ hist = [ph \in Phones |-> NoHist]
    /\ properties = {}
    /\ prop_seq = 0
    /\ favorites = {}
    /\ fav_seq = 0
    /\ db = [c \in Collections |-> {}]
    /\ seq = [c \in Collections \cup {"uploads"} |-> 0]
    /\ uploads = {}
    /\ walk = NoWalk

\* the agent search over any collection of users
NextAgents == SearchAgents(1) \/ AgentsFind(1)

SpecAgents == InitAgents /\ [][NextAgents]_vars

\* inquiries created, with request bodies that carry a status of their own or
\* none, and updated, one request at a time
NextInquiries ==
    \/ /\ CreatedLeft
       /\ \/ CreatePlainUser(1)
          \/ CreatePropertyFrom(1, {1}, {PlainBody})
          \/ CreateWithRefs(1, "create_inquiry",
                            [message : {1}, status : StatusStrings \cup {Absent}])
    \/ UserInsert(1) \/ UserFetch(1) \/ PropFetch(1)
    \/ RefFindUser(1) \/ DocInsert(1) \/ DocFetch(1)
    \/ UpdateInquiry(1) \/ DocUpdateFetch(1)
    \/ Tick

SpecInquiries == Init /\ [][NextInquiries]_vars

\* notifications created for any user, updated, marked read and counted, one
\* request at a time
NextNotifications ==
    \/ CreateForUser(1, "create_notification",
                     [read : {ReadFalse, ReadTrue}, action_text : {1}])
    \/ DocFetch(1)
    \/ UpdateDocFrom(1, "update_notification",
                     UpdateBodies({"read"}, {ReadFalse, ReadTrue, ReadNull}))
    \/ DocUpdateFetch(1)
    \/ MarkAllRead(1)
    \/ GetUnreadCount(1)

SpecNotifications == Init /\ [][NextNotifications]_vars

\* db.users holds users created by create_user (subscription_plan_id "metal",
\* the default of UserBase) or by signup (no subscription_plan_id)
InitPlans ==
    /\ now = 0
    /\ otp_storage = Empty
    /\ otps = Empty
    /\ \E D \in SUBSET UserIds : \E f \in [D -> {NoField, "metal"}] :
         users = {[id |-> i, phone |-> i, email |-> i, subscription_plan_id |-> f[i]]
                    : i \in D}
    /\ user_seq = MaxUserIds
    /\ sms_out = NoSms
    /\ procs = [p \in Procs |-> IdleProc]
    /\ resp = NoResp
    /\ hist = [ph \in Phones |-> NoHist]
    /\ properties = {}
    /\ prop_seq = 0
    /\ favorites = {}
    /\ fav_seq = 0
    /\ db = [c \in Collections |-> {}]
    /\ seq = [c \in Collections \cup {"uploads"} |-> 0]
    /\ uploads = {}
    /\ walk = NoWalk

\* the plan screen read, the spin reward activated and the plan of a user
\* updated, one request at a time
NextPlans ==
    \/ GetSubscriptionPlans(1)
    \/ ActivateSpinReward(1)
    \/ UpdateUserPlan(1)
    \/ UserUpdateFetch(1)

SpecPlans == InitPlans /\ [][NextPlans]_vars

\* the property handlers, one request at a time, while time passes
NextProps ==
    \/ CreateProperty(1)
    \/ PropFetch(1)
    \/ GetProperty(1)
    \/ UpdateProperty(1)
    \/ PropUpdateFetch(1)
    \/ DeleteProperty(1)
    \/ Tick

SpecProps == Init /\ [][NextProps]_vars

\* clients creating properties and reading the listing page by page, one
\* request at a time, while time passes
NextPages ==
    \/ CreateProperty(1)
    \/ PropFetch(1)
    \/ GetProperties(1)
    \/ PropertiesFind(1)
    \/ Tick

SpecPages == Init /\ [][NextPages]_vars

\* overlapping request-otp calls only
NextIssue == (\E p \in Procs : RequestOtp(p) \/ SendOtp(p) \/ SendSms(p) \/ StoreOtpInDb(p)) \/ Tick

SpecIssue == Init /\ [][NextIssue]_vars

----------------------------------------------------------------------------
(* Claims about the OTP service and the auth handlers *)

VerifyOps == {"verify_otp", "login_verify_otp"}

IssueOps == {"request_otp", "login_request_otp"}

\* the handler of p has got past the verification
PastVerification(p) == procs[p].pc \in {"l_user", "clear_db", "clear_mem"}

\* the signup handler of p has got past its check of the verified flag
PastSignupGate(p) == procs[p].pc \in {"s_user", "s_email", "s_insert", "clear_db", "clear_mem"}

\* C1: a verification request for an issued OTP that is made after 5 earlier
\* verification requests for that OTP, or after its expiry time, is answered
\* with 400, whatever code it carries.
C1_VerifyRejectedAfterLimitOrExpiry ==
    (/\ resp.op \in VerifyOps
     /\ hist[resp.phone].issued
     /\ (hist[resp.phone].tries > MaxAttempts \/ hist[resp.phone].late))
    => resp.status = 400

\* C2: signup inserts a user for a phone only if a verification with the
\* issued code succeeded for that phone since the last issuance and the
\* record was not cleared since; a signup that ends without that is answered
\* with 400 and leaves db.users as it was.
C2_SignupOnlyAfterVerification ==
    [][/\ users' # users =>
            \E p \in Procs :
                /\ procs[p].op = "signup" /\ procs[p].pc = "s_insert"
                /\ hist[procs[p].phone].ok
                /\ \E u \in users' \ users : u.phone = procs[p].phone
       /\ \A p \in Procs :
            (/\ procs[p].op = "signup" /\ procs'[p].pc = "idle"
             /\ ~hist[procs[p].phone].ok)
            => (resp'.status = 400 /\ users' = users)]_vars

C2_Witness == resp.op = "signup" /\ resp.status = 201

\* C3: when signup or login/verify-otp has answered with success, neither
\* the map nor db.otps holds a record for the phone; and a verification or a
\* signup gets past its OTP check only if an OTP was issued for the phone
\* since the last such success.
C3_ClearedAfterSuccess ==
    /\ (resp.op \in {"signup", "login_verify_otp"} /\ resp.status \in {200, 201})
       => (resp.phone \notin DOMAIN otp_storage /\ resp.phone \notin DOMAIN otps)
    /\ (resp.op = "verify_otp" /\ resp.status = 200) => hist[resp.phone].issued
    /\ \A p \in Procs :
         (\/ procs[p].op = "login_verify_otp" /\ PastVerification(p)
          \/ procs[p].op = "signup" /\ PastSignupGate(p))
         => hist[procs[p].phone].issued

C3_Witness == resp.op = "login_verify_otp" /\ resp.status = 200

\* C4: the attempts counter of every OTP record, in the map and in db.otps,
\* is at most 5.
C4_AttemptsCapped ==
    /\ \A ph \in DOMAIN otp_storage : otp_storage[ph].attempts <= MaxAttempts
    /\ \A ph \in DOMAIN otps : otps[ph].attempts <= MaxAttempts

\* C5: when a request-otp call has answered and no other one is in flight
\* for the phone, the map and db.otps hold the same code for it, with
\* verified false and attempts 0.
C5_DualWriteAgrees ==
    (/\ resp.op \in IssueOps /\ resp.status = 200
     /\ \A p \in Procs : procs[p].phone # resp.phone)
    => /\ resp.phone \in DOMAIN otp_storage /\ resp.phone \in DOMAIN otps
       /\ otp_storage[resp.phone].otp = otps[resp.phone].otp
       /\ ~otp_storage[resp.phone].verified /\ ~otps[resp.phone].verified
       /\ otp_storage[resp.phone].attempts = 0 /\ otps[resp.phone].attempts = 0

\* C6: request-otp and login/request-otp answer 200 with the generated code
\* stored in both stores, verified false and attempts 0, whether the gateway
\* call succeeded or failed, and a verification with that code would pass.
C6_IssuedDespiteSmsFailure ==
    (resp.op \in IssueOps /\ resp.phone \in OtpPhones /\ resp.otp # 0)
    => /\ resp.status = 200
       /\ resp.phone \in DOMAIN otp_storage /\ resp.phone \in DOMAIN otps
       /\ otp_storage[resp.phone].otp = resp.otp /\ otps[resp.phone].otp = resp.otp
       /\ ~otp_storage[resp.phone].verified /\ ~otps[resp.phone].verified
       /\ otp_storage[resp.phone].attempts = 0 /\ otps[resp.phone].attempts = 0
       /\ VerifyPcAfterFind(resp.phone) = "v_inc"

C6_Witness == resp.op = "login_request_otp" /\ resp.status = 200 /\ ~resp.sms_ok

\* C7: request-otp for a phone of an existing user is answered with 400 and
\* login/request-otp for a phone of no user with 404; the step that rejects
\* changes no OTP record in either store and hands nothing to the gateway.
C7_RejectedIssuanceChangesNothing ==
    /\ [](/\ (resp.op = "request_otp" /\ UserWithPhone(resp.phone)) => resp.status = 400
          /\ (resp.op = "login_request_otp" /\ ValidPhoneFormat(resp.phone)
                /\ ~UserWithPhone(resp.phone)) => resp.status = 404)
    /\ [][(resp'.op \in IssueOps /\ resp'.status \in {400, 404})
            => (UNCHANGED <<otp_storage, otps>> /\ sms_out' = NoSms)]_vars

C7_Witness == resp.op = "request_otp" /\ resp.status = 400 /\ UserWithPhone(resp.phone)

----------------------------------------------------------------------------
(* Claims about favorites and user documents *)

\* a create_favorite request for a pair that had a favorite on arrival is
\* being handled or has just been answered
SecondFavoriteStep ==
    \/ resp'.op = "create_favorite" /\ resp'.had
    \/ \E p \in Procs : procs[p].op = "create_favorite" /\ procs[p].had

\* C8 as stated: a second POST /api/favorites for a (user, property) pair that
\* already has a favorite returns 400 and leaves the favorites collection
\* unchanged.
C8_SecondFavoriteReturns400 ==
    /\ []((resp.op = "create_favorite" /\ resp.had) => resp.status = 400)
    /\ [][SecondFavoriteStep => favorites' = favorites]_vars

\* C8 amended: with requests handled one at a time, a POST /api/favorites for
\* a pair that already has a favorite returns 400 when the property and the
\* user both still exist and 404 when either has been deleted since; in both
\* cases the favorites collection is unchanged.
C8_SecondFavoriteRejected ==
    /\ []((resp.op = "create_favorite" /\ resp.had) =>
            resp.status = IF PropertyExists(resp.pid) /\ UserExists(resp.uid)
                          THEN 400 ELSE 404)
    /\ [][SecondFavoriteStep => favorites' = favorites]_vars

C8_Witness == resp.op = "create_favorite" /\ resp.had /\ resp.status = 400

\* C9: in every reachable state, also when two create_favorite requests for
\* the same pair interleave between the existence check and the insert, the
\* favorites collection holds at most one document per (user_id, property_id),
\* and every request for an existing user and property that did not create the
\* document is answered with 400.
C9_OnePerPairOthers400 ==
    /\ [](\A f, g \in favorites :
            (f.user_id = g.user_id /\ f.property_id = g.property_id) => f = g)
    /\ [][\A p \in Procs :
            (/\ procs[p].op = "create_favorite"
             /\ procs[p].pc \in {"f_exist", "f_insert"}
             /\ procs'[p].pc = "idle") => resp'.status = 400]_vars

\* C10: in every state reachable through create_user, update_user,
\* update_profile and signup, no two user documents share an email and no two
\* share a phone.
C10_EmailAndPhoneUnique ==
    \A u, v \in users : u.id # v.id => (u.email # v.email /\ u.phone # v.phone)

C10_Witness ==
    /\ resp.op \in {"create_user", "update_user", "update_profile"}
    /\ resp.status = 500
    /\ \E u \in users : u.phone = resp.phone /\ u.id # resp.uid
    /\ Cardinality(users) = MaxUserIds

UserWriteOps == {"create_user", "update_user", "update_profile"}

\* C11: a create_user, update_user or update_profile request whose email or
\* phone equals the email or phone of a different existing user is answered
\* with 400 (the users collection is then unchanged, see C10).
C11_DuplicateFieldAnswered400 ==
    (/\ resp.op \in UserWriteOps
     /\ resp.op = "create_user" \/ UserExists(resp.uid)
     /\ \E u \in users : u.id # resp.uid /\ (u.email = resp.email \/ u.phone = resp.phone))
    => resp.status = 400

\* a walk over all pages of an unchanged collection has been completed
WalkComplete == walk.limit > 0 /\ walk.same /\ walk.next > walk.total_pages

\* C12: for GET /api/properties with any filter, any limit and an unchanged
\* collection, total_pages = ceil(total / limit), and concatenating pages
\* 1..total_pages yields exactly total properties, none repeated or omitted,
\* ordered by descending posted_at.
C12_PagesPartitionTheListing ==
    WalkComplete =>
        LET M == Matching(walk.coll, walk.transaction_type)
            Doc(id) == CHOOSE d \in walk.coll : d.id = id
        IN /\ walk.total = Cardinality(M)
           /\ walk.total_pages * walk.limit >= walk.total
           /\ walk.total > 0 => (walk.total_pages - 1) * walk.limit < walk.total
           /\ walk.total = 0 => walk.total_pages = 0
           /\ Len(walk.got) = walk.total
           /\ {walk.got[i] : i \in 1..Len(walk.got)} = {d.id : d \in M}
           /\ \A i, j \in 1..Len(walk.got) :
                i < j => Doc(walk.got[i]).posted_at >= Doc(walk.got[j]).posted_at

----------------------------------------------------------------------------
(* Claims about reading, updating and deleting documents *)

DeleteOps == {"delete_property", "delete_user", "delete_favorite", "delete_review",
              "delete_inquiry", "delete_transaction", "delete_notification"}

GetOps == {"get_property", "get_user", "get_favorite", "get_review", "get_inquiry",
           "get_transaction", "get_notification"}

Entities == {"properties", "users", "favorites", "reviews", "inquiries",
             "transactions", "notifications"}

\* the collection a GET or DELETE by identifier addresses
EntityOf(op) ==
    CASE op \in {"get_property", "delete_property"} -> "properties"
      [] op \in {"get_user", "delete_user"} -> "users"
      [] op \in {"get_favorite", "delete_favorite"} -> "favorites"
      [] OTHER -> CollOf(op)

\* the identifier in the path of the request answered by r
PathId(r) ==
    CASE r.op \in {"get_property", "delete_property"} -> r.pid
      [] r.op \in {"get_user", "delete_user"} -> r.uid
      [] OTHER -> r.fid

DocsOf(e) ==
    CASE e = "properties" -> properties
      [] e = "users" -> users
      [] e = "favorites" -> favorites
      [] OTHER -> db[e]

\* the collection after the step
DocsAfter(e) ==
    CASE e = "properties" -> properties'
      [] e = "users" -> users'
      [] e = "favorites" -> favorites'
      [] OTHER -> db'[e]

\* the number of identifiers generated for a collection
Generated(e) ==
    CASE e = "properties" -> prop_seq
      [] e = "users" -> user_seq
      [] e = "favorites" -> fav_seq
      [] OTHER -> seq[e]

Resolves(e, id) == \E d \in DocsOf(e) : d.id = id

\* C13: for every entity with a DELETE handler, deleting an identifier that
\* resolves to no document returns 404 and changes nothing; deleting an
\* existing one returns 204 and removes it, and every later GET or DELETE of
\* that identifier returns 404 (a GET or DELETE of an identifier that resolves
\* to nothing returns 404, and a deleted identifier never resolves again).
C13_DeleteThenNotFound ==
    /\ [][(resp'.op \in DeleteOps \cup GetOps /\ IsValidId(PathId(resp'))) =>
            LET e == EntityOf(resp'.op)
                id == PathId(resp')
            IN IF ~Resolves(e, id)
               THEN resp'.status = 404 /\ DocsAfter(e) = DocsOf(e)
               ELSE resp'.op \in DeleteOps =>
                      /\ resp'.status = 204
                      /\ DocsAfter(e) = {d \in DocsOf(e) : d.id # id}]_vars
    /\ [][(resp'.op = "remove_favorite_by_property"
             /\ IsValidId(resp'.uid) /\ IsValidId(resp'.pid)) =>
            IF PairHasFavorite(resp'.uid, resp'.pid)
            THEN /\ resp'.status = 204
                 /\ favorites' = {f \in favorites :
                                    ~(f.user_id = resp'.uid /\ f.property_id = resp'.pid)}
            ELSE resp'.status = 404 /\ favorites' = favorites]_vars
    /\ [][\A e \in Entities : \A id \in 1..Generated(e) :
            ~Resolves(e, id) => ~(Resolves(e, id))']_vars

\* a GET answered 404 for an identifier that was deleted before
C13_Witness ==
    /\ resp.op \in GetOps
    /\ resp.status = 404
    /\ PathId(resp) \in 1..Generated(EntityOf(resp.op))
    /\ resp.op = "get_transaction"

\* a successful POST /api/properties answered, and the GET of the returned
\* identifier answered in the very next step
GetFollowsCreate ==
    /\ resp.op = "create_property"
    /\ resp.status = 201
    /\ resp'.op = "get_property"
    /\ resp'.pid = resp.ret.id

\* C14 as stated: the GET of the identifier returned by POST /api/properties,
\* with no write in between, returns a document whose fields equal the
\* submitted payload and equal the document returned by the POST.
C14_GetReturnsPayload ==
    [][GetFollowsCreate =>
         /\ resp'.status = 200
         /\ resp'.ret = resp.ret
         /\ resp'.ret.owner_id = resp.body.owner_id
         /\ resp'.ret.transaction_type = resp.body.transaction_type
         /\ resp'.ret.price = resp.body.price]_vars

\* C14 amended: the GET returns the document the POST returned, whose fields
\* equal the submitted payload except that owner_id is returned in lower-case
\* hexadecimal (str of the ObjectId parsed from the submitted string).
C14_GetReturnsNormalisedPayload ==
    [][GetFollowsCreate =>
         /\ resp'.status = 200
         /\ resp'.ret = resp.ret
         /\ resp'.ret.owner_id = StrOf(ObjectIdOf(resp.body.owner_id))
         /\ resp'.ret.transaction_type = resp.body.transaction_type
         /\ resp'.ret.price = resp.body.price]_vars

C14_Witness ==
    /\ resp.op = "get_property"
    /\ resp.status = 200
    /\ resp.pid = prop_seq
    /\ resp.ret.id = resp.pid

UpdateOps == {"update_property", "update_user", "update_profile", "update_review",
              "update_notification", "update_order"}

\* all stored documents
Stored == <<users, properties, favorites, db>>

\* the step of an update handler
UpdateHandlerStep ==
    \/ resp'.op \in UpdateOps
    \/ \E p \in Procs : procs[p].op \in UpdateOps \/ procs'[p].op \in UpdateOps

\* new is old with exactly the fields of data set to the values of data
ExactlySet(old, new, data) ==
    /\ DOMAIN new = DOMAIN old
    /\ \A k \in DOMAIN old : new[k] = IF k \in DOMAIN data THEN data[k] ELSE old[k]

\* coll changed in one document only, which had the fields of data set
OneDocumentSet(coll, after, id, data) ==
    \E old \in coll : \E new \in after :
        /\ old.id = id
        /\ new.id = id
        /\ after \ {new} = coll \ {old}
        /\ ExactlySet(old, new, data)

\* the fields an update_user / update_profile request carries
UserData(e, ph) ==
    [k \in ({"email"} \cap (IF e = Absent THEN {} ELSE {"email"}))
           \cup ({"phone"} \cap (IF ph = Absent THEN {} ELSE {"phone"}))
        |-> IF k = "email" THEN e ELSE ph]

\* the update_one of the handler p runs has matched a document in this step
Applied(p) ==
    /\ procs'[p].pc \in {"pu_fetch", "uu_fetch", "d_fetch"}
    /\ procs[p].pc # procs'[p].pc

\* the effect of the update_one of an update handler; every other step of an
\* update handler has no effect
UpdateEffect ==
    IF \E p \in Procs : Applied(p)
    THEN \E p \in Procs :
           /\ Applied(p)
           /\ \/ /\ procs'[p].op = "update_property"
                 /\ OneDocumentSet(properties, properties', procs'[p].pid, procs'[p].body)
                 /\ UNCHANGED <<users, favorites, db>>
              \/ /\ procs'[p].op \in {"update_user", "update_profile"}
                 /\ OneDocumentSet(users, users', procs'[p].uid,
                                   UserData(procs'[p].email, procs'[p].phone))
                 /\ UNCHANGED <<properties, favorites, db>>
              \/ /\ procs'[p].op \in {"update_review", "update_notification",
                                       "update_order"}
                 /\ OneDocumentSet(db[CollOf(procs'[p].op)], db'[CollOf(procs'[p].op)],
                                   procs'[p].doc, procs'[p].body)
                 /\ \A c \in Collections \ {CollOf(procs'[p].op)} : db'[c] = db[c]
                 /\ UNCHANGED <<users, properties, favorites>>
    ELSE UNCHANGED Stored

\* the request answered by r carried no field
EmptyBody(r) ==
    IF r.op \in {"update_user", "update_profile"}
    THEN /\ r.email = Absent
         /\ r.phone = Absent
         /\ "other" \in DOMAIN r.body
         /\ ~r.body.other
    ELSE DOMAIN r.body = {}

\* C15: a PUT / PATCH update of an existing property, user, review,
\* notification or order sets exactly the fields present in the request body
\* and leaves every other stored field of that document, and every other
\* document, unchanged; a request body with no fields returns 400 and changes
\* nothing.
C15_UpdateSetsExactlyTheBody ==
    /\ [][UpdateHandlerStep => UpdateEffect]_vars
    /\ [][(resp'.op \in UpdateOps /\ resp'.status = 200) =>
            \E p \in Procs : procs[p].pc \in {"pu_fetch", "uu_fetch", "d_fetch"}]_vars
    /\ [][(resp'.op \in UpdateOps /\ EmptyBody(resp')) =>
            (resp'.status = 400 /\ UNCHANGED Stored)]_vars

\* an update that carried one of two fields was applied and answered
C15_Witness ==
    /\ resp.op = "update_review"
    /\ resp.status = 200
    /\ DOMAIN resp.body = {"rating"}
    /\ \E d \in db["reviews"] : d.id = resp.fid /\ d.rating = resp.body.rating
                                  /\ d.comment # d.rating

----------------------------------------------------------------------------
(* Malformed identifiers                                                   *)

RefCreateOps == {"create_favorite", "create_review", "create_inquiry", "create_transaction"}

\* the request answered by r carried an identifier that is not an ObjectId
MalformedId(r) ==
    CASE r.op \in {"create_property", "create_notification", "create_order"}
           -> ~IsValidId(r.uid)
      [] r.op \in {"create_favorite", "create_review", "create_inquiry"}
           -> ~IsValidId(r.pid) \/ ~IsValidId(r.uid)
      [] r.op = "create_transaction"
           -> ~IsValidId(r.pid) \/ ~IsValidId(r.uid) \/ ~IsValidId(r.body.seller_id)
      [] r.op \in DeleteOps \cup GetOps \cup {"get_order"}
           -> ~IsValidId(PathId(r))
      [] OTHER -> FALSE

\* C16: every handler that receives a malformed identifier, in the path or in
\* the request body (owner_id of create_property, user_id of
\* create_notification and create_order included), answers 400 and writes
\* nothing to the database.
C16_MalformedIdAnswered400 ==
    [][MalformedId(resp') => (resp'.status = 400 /\ UNCHANGED Stored)]_vars

----------------------------------------------------------------------------
(* References to users and properties                                      *)

\* the users a stored document refers to
UserRefs(d) == {d[k] : k \in DOMAIN d \cap {"user_id", "buyer_id", "seller_id"}}

\* every property and user d refers to is stored
RefsExist(d) ==
    /\ \E x \in properties : x.id = d.property_id
    /\ \A uid \in UserRefs(d) : \E u \in users : u.id = uid

\* the documents this step inserted into favorites, reviews, inquiries and
\* transactions
InsertedNow ==
    (favorites' \ favorites)
        \cup UNION {db'[c] \ db[c] : c \in {"reviews", "inquiries", "transactions"}}

\* a document is inserted only while everything it refers to is stored
InsertedAfterFound == \A d \in InsertedNow : RefsExist(d)

\* the request answered by r named a property, user, buyer or seller that is
\* not among ps and us
RefMissing(r, us, ps) ==
    \/ ~\E x \in ps : x.id = ObjectIdOf(r.pid)
    \/ ~\E u \in us : u.id = ObjectIdOf(r.uid)
    \/ /\ r.op = "create_transaction"
       /\ ~\E u \in us : u.id = ObjectIdOf(r.body.seller_id)

\* C17: create_favorite, create_inquiry, create_review and create_transaction
\* answer 404 and insert nothing when the referenced property, user, buyer or
\* seller does not exist; a document is inserted only after every referenced
\* entity was found.
C17_MissingReferenceAnswered404 ==
    /\ [][(/\ resp'.op \in RefCreateOps
           /\ ~MalformedId(resp')
           /\ RefMissing(resp', users', properties'))
            => (resp'.status = 404 /\ UNCHANGED Stored)]_vars
    /\ [][InsertedAfterFound]_vars

\* create_transaction was refused for its seller alone
C17_Witness ==
    /\ resp.op = "create_transaction"
    /\ resp.status = 404
    /\ \E x \in properties : x.id = resp.pid
    /\ \E u \in users : u.id = resp.uid
    /\ IsValidId(resp.body.seller_id)
    /\ ~\E u \in users : u.id = resp.body.seller_id

\* C18: at the instant a favorite, inquiry, review or transaction document is
\* inserted, every property and user it references exists, also when the
\* create request interleaves with a concurrent delete_property or
\* delete_user.
C18_ReferencesExistAtInsert ==
    [][\A d \in InsertedNow :
          /\ \E x \in properties : x.id = d.property_id
          /\ \A uid \in UserRefs(d) : \E u \in users : u.id = uid]_vars

\* the GET handlers of the documents that refer to a user or a property
DependentGetOps == {"get_favorite", "get_review", "get_inquiry", "get_transaction",
                    "get_notification", "get_order"}

\* C19: delete_property and delete_user remove exactly the one addressed
\* document and leave every other collection unchanged: favorites, reviews,
\* inquiries, transactions, notifications and orders that reference the
\* deleted entity remain stored and retrievable.
C19_DeleteLeavesReferringDocuments ==
    /\ [][resp'.op = "delete_property" =>
            /\ properties' = {x \in properties : x.id # resp'.pid}
            /\ UNCHANGED <<users, favorites, db>>]_vars
    /\ [][resp'.op = "delete_user" =>
            /\ users' = {u \in users : u.id # resp'.uid}
            /\ UNCHANGED <<properties, favorites, db>>]_vars
    /\ [][(/\ resp'.op \in DependentGetOps
           /\ \E d \in DocsAfter(EntityOf(resp'.op)) : d.id = PathId(resp'))
            => resp'.status = 200]_vars

\* a review was retrieved after its property and its user were deleted
C19_Witness ==
    /\ resp.op = "get_review"
    /\ resp.status = 200
    /\ \E d \in db["reviews"] :
         /\ d.id = resp.fid
         /\ ~\E x \in properties : x.id = d.property_id
         /\ ~\E u \in users : u.id = d.user_id

----------------------------------------------------------------------------
(* Uploads                                                                 *)

\* the file of the request answered by r has a wrong extension or is too large
Rejectable(r) ==
    \/ Lower(r.body.suffix) \notin ALLOWED_EXTENSIONS
    \/ r.body.size > MaxBytes

\* C20: upload_image validates extension and size: a file whose extension is
\* not one of jpg, jpeg, png, gif, webp, or whose content is larger than 10 MB,
\* is rejected with status 400 and no file is left in the uploads directory; an
\* accepted file is stored under a fresh unique name and its /uploads/ URL is
\* returned.
C20_UploadValidatesExtensionAndSize ==
    /\ [][(resp'.op = "upload_image" /\ Rejectable(resp'))
            => (resp'.status = 400 /\ uploads' = uploads)]_vars
    /\ [][(resp'.op = "upload_image" /\ resp'.status = 200)
            => /\ ~\E f \in uploads : f.name = resp'.fid
               /\ \E f \in uploads' :
                    /\ f.name = resp'.fid
                    /\ f.size = resp'.body.size
                    /\ uploads' = uploads \cup {f}
                    /\ resp'.ret = [url |-> UrlOf(f.name, f.ext)]]_vars

----------------------------------------------------------------------------
(* Filter screen                                                           *)

\* the range the $group of a facet computed, or none
Computed(facet) == IF facet # <<>> /\ facet[1].max > facet[1].min THEN facet ELSE <<>>

\* the documents the request answered by r matched
MatchedBy(r) == Matching(properties, r.body.transaction_type)

\* C21: GET /api/filter-screen returns fallback ranges whenever the matched
\* collection is empty or a computed range is degenerate: price_range is
\* {min 0, max 100} and area_range is {min 0, max 5000} unless the computed
\* range has max > min, so the returned range never has max <= min; with no
\* matching properties the response equals _empty_filter_response().
C21_FallbackRangesWhenDegenerate ==
    resp.op = "get_filter_screen_options" =>
        /\ resp.ret.price_range =
             IF Computed(PriceRangeFacet(MatchedBy(resp))) # <<>>
             THEN PriceRangeFacet(MatchedBy(resp))[1] ELSE DefaultPriceRange
        /\ resp.ret.area_range =
             IF Computed(AreaRangeFacet(MatchedBy(resp))) # <<>>
             THEN AreaRangeFacet(MatchedBy(resp))[1] ELSE DefaultAreaRange
        /\ resp.ret.price_range.max > resp.ret.price_range.min
        /\ resp.ret.area_range.max > resp.ret.area_range.min
        /\ MatchedBy(resp) = {} => resp.ret = EmptyFilterResponse

----------------------------------------------------------------------------
(* Guesses per issued code                                                 *)

\* C22: across any interleaving of concurrent verification requests for one
\* phone, at most 5 submitted codes are ever compared against a single issued
\* OTP before that OTP stops being accepted, so a caller gets at most 5 guesses
\* per issued code.
C22_AtMostFiveGuesses == \A ph \in Phones : hist[ph].compared <= MaxAttempts

----------------------------------------------------------------------------
(* The verified flag                                                       *)

\* the record of ph in coll is verified
IsVerifiedIn(coll, ph) == ph \in DOMAIN coll /\ coll[ph].verified

\* the flag of ph in coll is set by this step
BecomesVerified(coll, after, ph) == IsVerifiedIn(after, ph) /\ ~IsVerifiedIn(coll, ph)

\* the flag of ph in coll stays set only on the same code
StaysVerified(coll, after, ph) ==
    (IsVerifiedIn(coll, ph) /\ IsVerifiedIn(after, ph)) => after[ph].otp = coll[ph].otp

\* C23: an OTP record (in memory or in the otps collection) has verified = true
\* only if a verification request carrying exactly the code currently stored in
\* that record was processed after the record's last issuance; a mismatching,
\* expired or over-limit verification never sets verified, and issuing a new OTP
\* resets verified to false in both stores.
C23_VerifiedOnlyByMatchingCode ==
    /\ [][\A ph \in Phones :
            BecomesVerified(otps, otps', ph) =>
                \E p \in Procs :
                    /\ procs[p].pc = "v_set"
                    /\ procs'[p].pc # "v_set"
                    /\ procs[p].phone = ph
                    /\ procs[p].otp = otps'[ph].otp
                    /\ otps[ph].attempts <= MaxAttempts]_vars
    /\ [][\A ph \in Phones :
            BecomesVerified(otp_storage, otp_storage', ph) =>
                \E p \in Procs :
                    /\ procs[p].pc = "v_mem"
                    /\ procs'[p].pc # "v_mem"
                    /\ procs[p].phone = ph
                    /\ procs[p].otp = otp_storage'[ph].otp
                    /\ ~Expired(otp_storage[ph])
                    /\ ~AttemptsExhausted(otp_storage[ph])]_vars
    /\ [][\A ph \in Phones :
            /\ StaysVerified(otps, otps', ph)
            /\ StaysVerified(otp_storage, otp_storage', ph)]_vars

----------------------------------------------------------------------------
(* Expiry and signup                                                       *)

\* handler p, a signup, passes its OTP check in this step
SignupAuthorised(p) ==
    /\ procs'[p].op = "signup"
    /\ procs'[p].pc = "s_user"
    /\ procs[p].pc # "s_user"

\* C24: OTP records expire after a fixed window: once an OTP record's expiry
\* time has passed, that record no longer authorises anything, so POST /signup
\* for that phone is rejected with 400 even if the OTP was verified before it
\* expired.
C24_ExpiredRecordAuthorisesNothing ==
    [][\A p \in Procs :
         SignupAuthorised(p) =>
             IF procs[p].pc = "idle"
             THEN ~Expired(otps[procs'[p].phone])
             ELSE ~Expired(otp_storage[procs'[p].phone])]_vars

----------------------------------------------------------------------------
(* Claims about the shortlist, the agent search, inquiries, notifications *)
(* and subscription plans                                                 *)

\* a walk over all pages of one user's shortlist, with the favorites and the
\* properties unchanged, has been completed
ShortlistWalkComplete == WalkComplete /\ walk.user_id # 0

\* C25: get_user_shortlist preserves shortlist order: for any user, limit and
\* unchanged data, concatenating pages 1..total_pages yields the user's
\* shortlisted properties (matching the optional transaction_type) exactly
\* once each, ordered by the created_at of the favorite, newest favorite first.
C25_ShortlistPagesInFavoriteOrder ==
    ShortlistWalkComplete =>
        LET mine == {f \in walk.favs : f.user_id = walk.user_id}
            M == {d \in Matching(walk.coll, walk.transaction_type) :
                    \E f \in mine : f.property_id = d.id}
            Fav(id) == CHOOSE f \in mine : f.property_id = id
        IN /\ Len(walk.got) = Cardinality(M)
           /\ {walk.got[i] : i \in 1..Len(walk.got)} = {d.id : d \in M}
           /\ \A i, j \in 1..Len(walk.got) :
                i < j => Fav(walk.got[i]).created_at >= Fav(walk.got[j]).created_at

\* the users of an answered agent search
Returned(r) == {u \in users : \E i \in 1..Len(r.ret.agents) : r.ret.agents[i] = u.id}

\* C26: search_agents returns only users with user_type 'agent' or
\* is_real_estate_agent true; when city is given every returned agent matches
\* the city, and when location is given every returned agent matches the
\* location, for each of the four combinations of city and location present or
\* absent; total counts exactly those users.
C26_SearchReturnsMatchingAgentsOnly ==
    resp.op = "search_agents" =>
        LET Wanted(u) == /\ IsAgent(u)
                         /\ resp.body.city # NoPlace => CityQuery(u, resp.body.city)
                         /\ resp.body.location # NoPlace
                                => LocationQuery(u, resp.body.location)
        IN /\ \A u \in Returned(resp) : Wanted(u)
           /\ resp.ret.total = Cardinality({u \in users : Wanted(u)})

\* C27: after any sequence of create_inquiry and update_inquiry requests,
\* every stored inquiry has a status in {pending, responded, closed}, and
\* every newly created inquiry has status pending whatever the request body
\* contains.
C27_InquiryStatusStaysInItsSet ==
    /\ [](\A d \in db["inquiries"] : d.status \in {Pending, Responded, Closed})
    /\ [][\A d \in db'["inquiries"] :
            (\A e \in db["inquiries"] : e.id # d.id) => d.status = Pending]_vars

\* the notifications of a user, and those with read = false
NotificationsOf(coll, u) == {d \in coll : d.user_id = u}

UnreadOf(coll, u) == {d \in coll : d.user_id = u /\ d.read = ReadFalse}

\* a mark_all_read request has been answered with success by this step
MarkStep == resp'.op = "mark_all_read" /\ resp'.status = 200

\* modified_count is the number of the user's unread notifications before the
\* call, and no notification of another user changes
MarkCountsAndKeepsOthers ==
    MarkStep =>
        /\ resp'.ret.modified_count = Cardinality(UnreadOf(db["notifications"], resp'.uid))
        /\ \A d \in db["notifications"] : d.user_id # resp'.uid => d \in db'["notifications"]
        /\ \A d \in db'["notifications"] : d.user_id # resp'.uid => d \in db["notifications"]

\* every answer of get_unread_count is the number of unread notifications
UnreadCountAnswered ==
    (resp.op = "get_unread_count" /\ resp.status = 200)
        => resp.ret.unread_count = Cardinality(UnreadOf(db["notifications"], resp.uid))

\* a notification is inserted for the user by this step
CreatedFor(u) ==
    \E d \in NotificationsOf(db'["notifications"], u) :
        \A e \in db["notifications"] : e.id # d.id

\* update_notification sets read to false on a notification of the user
UnreadAgain(u) ==
    \E p \in Procs :
        /\ procs'[p].op = "update_notification"
        /\ procs'[p].pc = "d_fetch"
        /\ procs[p].pc = "idle"
        /\ "read" \in DOMAIN procs'[p].body
        /\ procs'[p].body.read = ReadFalse
        /\ \E d \in NotificationsOf(db["notifications"], u) : d.id = procs'[p].doc

PlansAnswered == resp.op = "get_subscription_plans" /\ resp.status = 200

\* the plans of the answer that are marked is_current
CurrentPlans(r) == {i \in DOMAIN r.ret.plans : r.ret.plans[i].is_current}

\* one plan is the Active Plan and the four others are Downgrade
OneActivePlan(r) ==
    /\ Len(r.ret.plans) = 5
    /\ Cardinality(CurrentPlans(r)) = 1
    /\ \A i \in DOMAIN r.ret.plans :
         r.ret.plans[i].button_label =
             IF r.ret.plans[i].is_current THEN "Active Plan" ELSE "Downgrade"

\* C29: for every user and every stored subscription_plan_id value (including
\* absent, empty and values that name no plan), GET /api/subscription-plans
\* marks exactly one of the five plans is_current with button_label 'Active
\* Plan', labels the other four 'Downgrade', and the current_plan_id in the
\* response equals the id of the plan marked is_current.
C29_OneActivePlanNamedByCurrentPlanId ==
    PlansAnswered =>
        /\ OneActivePlan(resp)
        /\ \A i \in CurrentPlans(resp) : resp.ret.plans[i].id = resp.ret.current_plan_id

\* the stored subscription_plan_id of a user
PlanOf(us, u) == (CHOOSE x \in us : x.id = u).subscription_plan_id

\* an activate_spin_reward request has been answered by this step
ActivateStep == resp'.op = "activate_spin_reward" /\ resp' # resp

\* this step writes the subscription_plan_id of the user
PlanWritten ==
    \/ resp'.op = "activate_spin_reward"
    \/ \E p \in Procs : procs'[p].op = "update_user" /\ procs'[p].pc = "uu_fetch"

\* C30: after a successful activate_spin_reward for an existing user, and
\* until that user's subscription_plan_id is next written, GET
\* /api/subscription-plans for that user shows Platinum as the Active Plan and
\* every other plan as Downgrade; activate_spin_reward for a user id that
\* resolves to no user returns 404 and changes no user document.
C30_SpinRewardShowsPlatinumUntilWritten ==
    /\ [][(ActivateStep /\ resp'.status = 200) =>
            /\ \E x \in users : x.id = ObjectIdOf(resp'.uid)
            /\ PlanOf(users', ObjectIdOf(resp'.uid)) = "platinum"]_vars
    /\ [][\A x \in users :
            (PlanOf(users, x.id) = "platinum" /\ ~PlanWritten)
                => (\E y \in users' : y.id = x.id) /\ PlanOf(users', x.id) = "platinum"]_vars
    /\ [](\A x \in users :
            (PlansAnswered /\ ObjectIdOf(resp.uid) = x.id /\ PlanOf(users, x.id) = "platinum")
                => /\ OneActivePlan(resp)
                   /\ \A i \in CurrentPlans(resp) : resp.ret.plans[i].id = "platinum")
    /\ [][(ActivateStep /\ IsValidId(resp'.uid)
             /\ \A x \in users : x.id # ObjectIdOf(resp'.uid))
            => (resp'.status = 404 /\ UNCHANGED users)]_vars

\* the plan screen has been answered for a user whose plan the spin reward
\* set, with an identifier in upper case
C30_Witness ==
    /\ PlansAnswered
    /\ resp.uid = UpperCase(2)
    /\ \E x \in users : x.id = 2 /\ x.subscription_plan_id = "platinum"
    /\ resp.ret.plans[5].is_current

====
